---- MODULE Spec2Model ----
(***************************************************************************)
(* Model of pkg/controllers/proxy/service_endpoints_sync.go: one sync pass *)
(* (syncIpvsServices) reconciles the desired services and endpoints into   *)
(* the dummy interface, the IPVS table and the mangle table, then sweeps   *)
(* what is no longer desired.                                              *)
(*                                                                         *)
(* Strings are sequences of one-character strings, so that the service     *)
(* keys are built, searched and split the way the code does it.  An IPv4   *)
(* address is a tuple of four octets; NoAddr is the nil net.IP.            *)
(*                                                                         *)
(* Not modelled: scheduler, session affinity and flags of a virtual        *)
(* service (they never decide a key, an address or a real server), log     *)
(* lines and the sync-duration metric.                                     *)
(***************************************************************************)
EXTENDS Integers, Sequences, FiniteSets, TLC

VARIABLES
    serviceInfoMap,            \* input: service ref -> serviceInfo
    endpointsInfoMap,          \* input: service ref -> sequence of endpointsInfo
    nodeportBindOnAllIP,       \* nsc.nodeportBindOnAllIP
    dummyAddrs,                \* addresses on kube-dummy-if
    ipvs,                      \* IPVS table: virtual service -> set of real servers
    mangle,                    \* mangle-table DSR rules
    ipRules,                   \* fwmarks with an ip rule to the DSR table
    podVips,                   \* <<podIP, externalIP>> injected in pod namespaces
    fwMarkMap,                 \* nsc.fwMarkMap: mark -> (ip, protocol, port)
    metricsMap,                \* nsc.metricsMap: service key -> label values
    activeServiceEndpointMap,  \* per-pass map: service key -> endpoint IDs
    syncErrors,                \* the pass's syncErrors flag
    pc,                        \* the step syncIpvsServices is about to invoke
    returned,                  \* what the last finished pass returned
    steps,                     \* steps invoked so far in this pass, in order
    attempted,                 \* service refs the last reconcile step iterated
    destructive,               \* a deletion or mark release happened this pass
    failures,                  \* adapter failures injected so far
    lastFail,                  \* the adapter calls that failed in the step that last returned
    ensured,                   \* the (service, real server) pairs ipvsAddServer accepted this pass
    passFail,                  \* the (step, adapter call) pairs that failed this pass
    passNo,                    \* passes started
    prev,                      \* host state and verdict of the previous pass
    dsrMark,                   \* the mark cleanupDSRService is called with on its own
    dsrErr,                    \* what that call returned
    listed,                    \* an ipvs.Service the IPVS listing returned
    listedKey                  \* the key cleanupStaleIPVSConfig computed for it

vars == <<serviceInfoMap, endpointsInfoMap, nodeportBindOnAllIP, dummyAddrs,
          ipvs, mangle, ipRules, podVips, fwMarkMap, metricsMap,
          activeServiceEndpointMap, syncErrors, pc, returned, steps,
          attempted, destructive, failures, lastFail, ensured, passFail, passNo, prev,
          dsrMark, dsrErr, listed, listedKey>>

(***************************************************************************)
(* Bounds of the model.                                                    *)
(***************************************************************************)
\* passes of syncIpvsServices in one behaviour
MaxPasses == 2
\* adapter calls that fail in one behaviour
MaxFailures == 1

(***************************************************************************)
(* Strings.                                                                *)
(***************************************************************************)
Digits == <<"0", "1", "2", "3", "4", "5", "6", "7", "8", "9",
            "a", "b", "c", "d", "e", "f">>

RECURSIVE FormatInt(_, _)
FormatInt(n, base) ==
    IF n < base THEN <<Digits[n + 1]>>
    ELSE FormatInt(n \div base, base) \o <<Digits[(n % base) + 1]>>

\* strconv.Itoa, fmt.Sprint of an unsigned integer
Itoa(n) == FormatInt(n, 10)

\* strings.Contains
StrContains(s, sub) ==
    \E i \in 1..(Len(s) - Len(sub) + 1) : SubSeq(s, i, i + Len(sub) - 1) = sub

\* index of the first "-" of s, 0 when there is none
FirstDash(s) ==
    IF \E i \in 1..Len(s) : s[i] = "-"
    THEN CHOOSE i \in 1..Len(s) : s[i] = "-" /\ \A j \in 1..(i - 1) : s[j] # "-"
    ELSE 0

\* strings.SplitN(k, "-", expectedServiceIDParts)[0]
SplitFirst(k) == IF FirstDash(k) = 0 THEN k ELSE SubSeq(k, 1, FirstDash(k) - 1)

\* number of "-" in s
DashCount(s) == Cardinality({i \in 1..Len(s) : s[i] = "-"})

\* net.IP.String() of an IPv4 address
IPString(ip) ==
    Itoa(ip[1]) \o <<".">> \o Itoa(ip[2]) \o <<".">> \o Itoa(ip[3]) \o <<".">> \o Itoa(ip[4])

NoAddr == << >>

tcpProtocol == <<"t", "c", "p">>
udpProtocol == <<"u", "d", "p">>
noneProtocol == <<"n", "o", "n", "e">>
tunnelInterfaceType == <<"t", "u", "n", "n", "e", "l">>

\* syscall.IPPROTO_TCP = 6, IPPROTO_UDP = 17, IPPROTO_NONE = 59
convertSvcProtoToSysCallProto(p) ==
    CASE p = tcpProtocol -> 6
      [] p = udpProtocol -> 17
      [] OTHER -> 59

convertSysCallProtoToSvcProto(n) ==
    CASE n = 6 -> tcpProtocol
      [] n = 17 -> udpProtocol
      [] OTHER -> noneProtocol

\* "<ip>-<proto>-<port>"
generateIPPortID(ip, protocol, port) == ip \o <<"-">> \o protocol \o <<"-">> \o port

\* "<ip>:<port>"
generateEndpointID(ip, port) == ip \o <<":">> \o port

(***************************************************************************)
(* Maps.                                                                   *)
(***************************************************************************)
EmptyMap == [x \in {} |-> x]
MapSet(m, k, v) == [x \in DOMAIN m \cup {k} |-> IF x = k THEN v ELSE m[x]]
MapDel(m, k) == [x \in DOMAIN m \ {k} |-> m[x]]

\* the elements of a finite set in some fixed order
RECURSIVE SetToSeq(_)
SetToSeq(S) ==
    IF S = {} THEN << >>
    ELSE LET x == CHOOSE y \in S : TRUE IN <<x>> \o SetToSeq(S \ {x})

\* every order in which the elements of S can be iterated
Orders(S) ==
    {o \in [1..Cardinality(S) -> S] : \A i, j \in 1..Cardinality(S) : i # j => o[i] # o[j]}

(***************************************************************************)
(* The node and the inputs of a pass.                                      *)
(***************************************************************************)
\* nsc.nodeIP
NodeIP == <<192, 168, 1, 10>>

\* what getAllLocalIPs returns on this node (the dummy interface is left out)
LocalIPs == <<NodeIP, <<10, 0, 0, 5>>>>

\* nsc.excludedCidrs: 172.16.0.0/16
excludedCidrs == {[ip |-> <<172, 16, 0, 0>>, octets |-> 2]}

\* net.IPNet.Contains for a mask of whole octets; a nil address is in no network
CidrContains(cidr, ip) ==
    /\ ip # NoAddr
    /\ \A i \in 1..cidr.octets : ip[i] = cidr.ip[i]

ExternalIP == <<203, 0, 113, 9>>
StaleIP == <<10, 0, 0, 99>>
ForeignIP == <<172, 16, 0, 7>>

epLocal == [ip |-> <<10, 1, 0, 2>>, port |-> 8080, isLocal |-> TRUE]
epRemote == [ip |-> <<10, 1, 0, 3>>, port |-> 8080, isLocal |-> FALSE]
epOther == [ip |-> <<10, 1, 0, 4>>, port |-> 8080, isLocal |-> FALSE]

serviceInfo(clusterIP, port, nodePort, ext, lb, skip, local, dsr) ==
    [protocol |-> tcpProtocol, clusterIP |-> clusterIP, port |-> port,
     nodePort |-> nodePort, externalIPs |-> ext, loadBalancerIPs |-> lb,
     skipLbIps |-> skip, local |-> local, directServerReturn |-> dsr,
     directServerReturnMethod |-> tunnelInterfaceType]

\* externalIPs united with the load-balancer IPs unless skipLbIps
extIPSet(svc) ==
    svc.externalIPs \cup (IF ~svc.skipLbIps THEN svc.loadBalancerIPs ELSE {})

\* (externalIPs, loadBalancerIPs, skipLbIps, directServerReturn) of service "a"
ExtChoicesA ==
    { <<{}, {ExternalIP}, TRUE, FALSE>>,
      <<{ExternalIP}, {ExternalIP}, FALSE, FALSE>>,
      <<{}, {ExternalIP}, FALSE, TRUE>> }

\* (local, endpoints) of service "a"
EndpointChoicesA ==
    { <<FALSE, << >> >>, <<FALSE, <<epLocal, epRemote>> >>,
      <<TRUE, <<epRemote>> >>, <<TRUE, <<epLocal, epRemote>> >> }

\* service "b", when present: (port, externalIPs, directServerReturn)
ChoicesB ==
    { <<443, {}, FALSE>>, <<80, {ExternalIP}, FALSE>>,
      <<443, {ExternalIP}, FALSE>>, <<443, {ExternalIP}, TRUE>> }

\* service "a" alone: a node-port service at 10.0.0.1:80
InputA(x, e) ==
    [svcs |-> [k \in {"a"} |->
                 serviceInfo(<<10, 0, 0, 1>>, 80, 30080, x[1], x[2], x[3], e[1], x[4])],
     eps |-> [k \in {"a"} |-> e[2]]]

WithB(in, b) ==
    [svcs |-> [k \in {"a", "b"} |->
                 IF k = "a" THEN in.svcs["a"]
                 ELSE serviceInfo(<<10, 0, 0, 2>>, b[1], 0, b[2], {}, FALSE, FALSE, b[3])],
     eps |-> [k \in {"a", "b"} |-> IF k = "a" THEN in.eps["a"] ELSE <<epOther>>]]

\* the desired states a pass may be given; "b" takes an external IP only beside
\* an "a" that has one
Inputs ==
    LET A == {InputA(x, e) : x \in ExtChoicesA, e \in EndpointChoicesA}
    IN A \cup UNION {{WithB(in, b) :
                         b \in {c \in ChoicesB : c[2] = {} \/ extIPSet(in.svcs["a"]) # {}}}
                     : in \in A}

\* the desired state with service "b" withdrawn
WithoutB(in) ==
    [svcs |-> [k \in DOMAIN in.svcs \ {"b"} |-> in.svcs[k]],
     eps |-> [k \in DOMAIN in.eps \ {"b"} |-> in.eps[k]]]

\* the desired state with service "a" switched between DSR and non-DSR
FlipDSR(in) ==
    [in EXCEPT !.svcs["a"].directServerReturn = ~@]

\* the desired states that may follow desired state `in` in the next pass
NextInputs(in) ==
    {in}
    \cup (IF extIPSet(in.svcs["a"]) # {} THEN {FlipDSR(in)} ELSE {})
    \cup (IF "b" \in DOMAIN in.svcs THEN {WithoutB(in)} ELSE {})

\* hasActiveEndpoints: some endpoint of the service is on this node
hasActiveEndpoints(endpoints) == \E i \in 1..Len(endpoints) : endpoints[i].isLocal

(***************************************************************************)
(* Adapter failures.  A step is given the set `fail` of the adapter calls  *)
(* that fail in it; a call is named by its operation, the service ref it   *)
(* is made for ("-" when for none) and an index (endpoint, local address   *)
(* or listed object; 0 when there is none).                                *)
(***************************************************************************)
FP(op, k, i) == <<op, k, i>>

(***************************************************************************)
(* The state a step works on, as one record.                               *)
(***************************************************************************)
World ==
    [addrs |-> dummyAddrs, ipvs |-> ipvs, mangle |-> mangle, rules |-> ipRules,
     pods |-> podVips, fw |-> fwMarkMap, active |-> activeServiceEndpointMap,
     seen |-> {}, destr |-> destructive, ens |-> ensured]

(***************************************************************************)
(* Host Adapter and mark registry.                                         *)
(***************************************************************************)
\* ln.ipAddrAdd: an address already on the interface is success
ipAddrAdd(w, ip) == [w EXCEPT !.addrs = @ \cup {ip}]

\* ln.ipAddrDel: removing an absent address reports IfaceHasNoAddr and changes nothing
ipAddrDel(w, ip) ==
    IF ip \in w.addrs THEN [w EXCEPT !.addrs = @ \ {ip}, !.destr = TRUE] ELSE w

\* the identity of a virtual service as the kernel lists it
VirtualService(ip, protocol, port) ==
    [Address |-> ip, Protocol |-> protocol, Port |-> port, FWMark |-> 0]

\* a firewall-mark service is listed without address, protocol or port
FWMarkService(fwMark) ==
    [Address |-> NoAddr, Protocol |-> 0, Port |-> 0, FWMark |-> fwMark]

\* the nil *ipvs.Service
NoHandle == [Address |-> NoAddr, Protocol |-> 0, Port |-> 0, FWMark |-> 0]

\* ln.ipvsAddService / ln.ipvsAddFWMarkService fail: the service is in the
\* kernel but not in the listing the caller took (creating it again is refused)
ipvsAddServiceErr(w, ipvsSvcs, svc) == svc \notin ipvsSvcs /\ svc \in DOMAIN w.ipvs

\* ln.ipvsAddService / ln.ipvsAddFWMarkService: create the service if absent
ipvsAddService(w, svc) ==
    IF svc \in DOMAIN w.ipvs THEN w ELSE [w EXCEPT !.ipvs = MapSet(@, svc, {})]

\* ln.ipvsAddServer fails: the virtual service is gone
ipvsAddServerErr(w, handle) == handle # NoHandle /\ handle \notin DOMAIN w.ipvs

\* ln.ipvsAddServer: add the real server, or update the one at the same ip:port
ipvsAddServer(w, handle, dst) ==
    IF handle \notin DOMAIN w.ipvs THEN [w EXCEPT !.ens = @ \cup {<<handle, dst>>}]
    ELSE [w EXCEPT !.ipvs[handle] =
                       {d \in @ : ~(d.Address = dst.Address /\ d.Port = dst.Port)} \cup {dst},
                   !.ens = @ \cup {<<handle, dst>>}]

\* ln.ipvsDelService: the service goes with its real servers
ipvsDelService(w, svc) ==
    IF svc \in DOMAIN w.ipvs THEN [w EXCEPT !.ipvs = MapDel(@, svc), !.destr = TRUE] ELSE w

\* nsc.ipvsDeleteDestination
ipvsDeleteDestination(w, svc, dst) ==
    IF svc \in DOMAIN w.ipvs /\ dst \in w.ipvs[svc]
    THEN [w EXCEPT !.ipvs[svc] = @ \ {dst}, !.destr = TRUE]
    ELSE w

mangleRule(ip, protocol, port, fwMark) ==
    [ip |-> ip, protocol |-> protocol, port |-> port, mark |-> fwMark]

\* a rule as iptables-save prints it: the mark in hexadecimal
mangleRuleLine(r) ==
    <<"-", "d", " ">> \o IPString(r.ip) \o <<"/", "3", "2", " ", "-", "p", " ">>
    \o r.protocol \o <<" ", "-", "-", "d", "p", "o", "r", "t", " ">> \o Itoa(r.port)
    \o <<" ", "0", "x">> \o FormatInt(r.mark, 16)

\* setupMangleTableRule: idempotent
setupMangleTableRule(w, ip, protocol, port, fwMark) ==
    [w EXCEPT !.mangle = @ \cup {mangleRule(ip, protocol, port, fwMark)}]

\* ln.cleanupMangleTableRule: removes the rule of exactly this tuple and mark
cleanupMangleTableRule(w, ip, protocol, port, fwMark) ==
    IF mangleRule(ip, protocol, port, fwMark) \in w.mangle
    THEN [w EXCEPT !.mangle = @ \ {mangleRule(ip, protocol, port, fwMark)}, !.destr = TRUE]
    ELSE w

\* the deterministic hash of a tuple; never 0
generateFWMark(ip, protocol, port) ==
    1000 + ip[1] + ip[2] + ip[3] + ip[4] + Len(protocol) + (port % 3)

fwTuple(ip, protocol, port) == [ip |-> ip, protocol |-> protocol, port |-> port]

\* nsc.lookupFWMarkByService: 0 when the tuple has no mark
lookupFWMarkByService(fw, ip, protocol, port) ==
    IF \E m \in DOMAIN fw : fw[m] = fwTuple(ip, protocol, port)
    THEN CHOOSE m \in DOMAIN fw : fw[m] = fwTuple(ip, protocol, port)
    ELSE 0

\* the first mark from h on that is free or already owned by the tuple
RECURSIVE probeFWMark(_, _, _)
probeFWMark(fw, t, h) ==
    IF h \notin DOMAIN fw \/ fw[h] = t THEN h ELSE probeFWMark(fw, t, h + 1)

\* nsc.generateUniqueFWMark: the tuple's mark, allocated if it has none
generateUniqueFWMark(fw, ip, protocol, port) ==
    IF lookupFWMarkByService(fw, ip, protocol, port) # 0
    THEN lookupFWMarkByService(fw, ip, protocol, port)
    ELSE probeFWMark(fw, fwTuple(ip, protocol, port), generateFWMark(ip, protocol, port))

\* the registry after generateUniqueFWMark
registerFWMark(w, ip, protocol, port) ==
    [w EXCEPT !.fw = MapSet(@, generateUniqueFWMark(w.fw, ip, protocol, port),
                            fwTuple(ip, protocol, port))]

\* routeVIPTrafficToDirector
routeVIPTrafficToDirector(w, fwMark) == [w EXCEPT !.rules = @ \cup {fwMark}]

\* nsc.addDSRIPInsidePodNetNamespace
addDSRIPInsidePodNetNamespace(w, externalIP, podIP) ==
    [w EXCEPT !.pods = @ \cup {<<podIP, externalIP>>}]

(***************************************************************************)
(* Reconcile steps.  Each returns [w |-> the state after it, err |-> it    *)
(* returned an error].                                                     *)
(***************************************************************************)
Destination(endpoint, tunnel) ==
    [Address |-> endpoint.ip, Port |-> endpoint.port, tunnel |-> tunnel]

endpointID(endpoint) == generateEndpointID(IPString(endpoint.ip), Itoa(endpoint.port))

\* activeServiceEndpointMap[id] = append(activeServiceEndpointMap[id], e)
appendActive(w, id, e) ==
    [w EXCEPT !.active = MapSet(@, id, (IF id \in DOMAIN @ THEN @[id] ELSE << >>) \o <<e>>)]

\* activeServiceEndpointMap[id] = make([]string, 0)
resetActive(w, id) == [w EXCEPT !.active = MapSet(@, id, << >>)]

\* the endpoint loop without condition 2: a local service gets its local endpoints only
RECURSIVE clusterIPServersLocalOnly(_, _, _, _, _, _, _, _)
clusterIPServersLocalOnly(w, k, svc, endpoints, i, id, handle, fail) ==
    IF i > Len(endpoints) THEN w
    ELSE LET endpoint == endpoints[i]
             w1 == IF svc.local /\ ~endpoint.isLocal
                   THEN w
                   ELSE IF FP("ipvsAddServer", k, i) \in fail \/ ipvsAddServerErr(w, handle)
                   THEN w
                   ELSE appendActive(ipvsAddServer(w, handle, Destination(endpoint, FALSE)),
                                     id, endpointID(endpoint))
         IN clusterIPServersLocalOnly(w1, k, svc, endpoints, i + 1, id, handle, fail)

\* the endpoint loop of setupClusterIPServices, from endpoint i on
RECURSIVE clusterIPServers(_, _, _, _, _, _, _, _)
clusterIPServers(w, k, svc, endpoints, i, id, handle, fail) ==
    IF i > Len(endpoints) THEN w
    ELSE LET endpoint == endpoints[i]
             w1 == IF svc.local /\ hasActiveEndpoints(endpoints) /\ ~endpoint.isLocal
                   THEN w
                   ELSE IF FP("ipvsAddServer", k, i) \in fail \/ ipvsAddServerErr(w, handle)
                   THEN w
                   ELSE appendActive(ipvsAddServer(w, handle, Destination(endpoint, FALSE)),
                                     id, endpointID(endpoint))
         IN clusterIPServers(w1, k, svc, endpoints, i + 1, id, handle, fail)

\* the service loop of setupClusterIPServices over the services still to visit
RECURSIVE clusterIPLoop(_, _, _, _, _, _)
clusterIPLoop(w, sim, eim, order, ipvsSvcs, fail) ==
    IF order = << >> THEN [w |-> w, err |-> FALSE]
    ELSE LET k == Head(order)
             svc == sim[k]
             protocol == convertSvcProtoToSysCallProto(svc.protocol)
             ws == [w EXCEPT !.seen = @ \cup {k}]
             handle == VirtualService(svc.clusterIP, protocol, svc.port)
             id == generateIPPortID(IPString(svc.clusterIP), svc.protocol, Itoa(svc.port))
         IN IF FP("getKubeDummyInterface", k, 0) \in fail
            THEN [w |-> ws, err |-> TRUE]
            ELSE IF FP("ipAddrAdd", k, 0) \in fail
            THEN clusterIPLoop(ws, sim, eim, Tail(order), ipvsSvcs, fail)
            ELSE IF FP("ipvsAddService", k, 0) \in fail
                    \/ ipvsAddServiceErr(ws, ipvsSvcs, handle)
            THEN clusterIPLoop(ipAddrAdd(ws, svc.clusterIP), sim, eim, Tail(order),
                               ipvsSvcs, fail)
            ELSE clusterIPLoop(
                     clusterIPServers(
                         resetActive(ipvsAddService(ipAddrAdd(ws, svc.clusterIP), handle), id),
                         k, svc, eim[k], 1, id, handle, fail),
                     sim, eim, Tail(order), ipvsSvcs, fail)

\* nsc.setupClusterIPServices
clusterIPServices(w, sim, eim, order, fail) ==
    IF FP("ipvsGetServices", "-", 0) \in fail THEN [w |-> w, err |-> TRUE]
    ELSE clusterIPLoop(w, sim, eim, order, DOMAIN w.ipvs, fail)

\* the adapter calls of setupClusterIPServices that can fail
clusterIPFailPoints(sim, eim) ==
    {FP("ipvsGetServices", "-", 0)}
    \cup {FP(op, k, 0) : op \in {"getKubeDummyInterface", "ipAddrAdd", "ipvsAddService"},
                         k \in DOMAIN sim}
    \cup UNION {{FP("ipvsAddServer", k, i) : i \in 1..Len(eim[k])} : k \in DOMAIN sim}

\* the endpoint loop of setupNodePortServices: endpoint i, node-port service j
RECURSIVE nodePortServers(_, _, _, _, _, _, _, _, _)
nodePortServers(w, k, svc, endpoints, i, j, handles, ids, fail) ==
    IF i > Len(endpoints) THEN w
    ELSE IF j > Len(handles)
    THEN nodePortServers(w, k, svc, endpoints, i + 1, 1, handles, ids, fail)
    ELSE LET endpoint == endpoints[i]
             w1 == IF ~(~svc.local \/ (svc.local /\ endpoint.isLocal)) THEN w
                   ELSE IF FP("ipvsAddServer", k, 10 * j + i) \in fail
                           \/ ipvsAddServerErr(w, handles[j])
                   THEN w
                   ELSE appendActive(ipvsAddServer(w, handles[j], Destination(endpoint, FALSE)),
                                     ids[j], endpointID(endpoint))
         IN nodePortServers(w1, k, svc, endpoints, i, j + 1, handles, ids, fail)

\* the bind-on-all-addresses loop of setupNodePortServices, from address j on:
\* [w, handles, ids]; a failed creation leaves the nil handle and the empty id
RECURSIVE nodePortBindAll(_, _, _, _, _, _, _)
nodePortBindAll(r, k, svc, addrs, j, ipvsSvcs, fail) ==
    IF j > Len(addrs) THEN r
    ELSE LET handle == VirtualService(addrs[j], convertSvcProtoToSysCallProto(svc.protocol),
                                      svc.nodePort)
             id == generateIPPortID(IPString(addrs[j]), svc.protocol, Itoa(svc.nodePort))
             r1 == IF FP("ipvsAddService", k, j) \in fail
                      \/ ipvsAddServiceErr(r.w, ipvsSvcs, handle)
                   THEN [w |-> r.w, handles |-> Append(r.handles, NoHandle),
                         ids |-> Append(r.ids, << >>)]
                   ELSE [w |-> resetActive(ipvsAddService(r.w, handle), id),
                         handles |-> Append(r.handles, handle), ids |-> Append(r.ids, id)]
         IN nodePortBindAll(r1, k, svc, addrs, j + 1, ipvsSvcs, fail)

\* the service loop of setupNodePortServices
RECURSIVE nodePortLoop(_, _, _, _, _, _, _)
nodePortLoop(w, sim, eim, order, ipvsSvcs, bindAll, fail) ==
    IF order = << >> THEN [w |-> w, err |-> FALSE]
    ELSE LET k == Head(order)
             svc == sim[k]
             endpoints == eim[k]
             ws == [w EXCEPT !.seen = @ \cup {k}]
             all == nodePortBindAll([w |-> ws, handles |-> << >>, ids |-> << >>], k, svc,
                                    LocalIPs, 1, ipvsSvcs, fail)
             handle == VirtualService(NodeIP, convertSvcProtoToSysCallProto(svc.protocol),
                                      svc.nodePort)
             id == generateIPPortID(IPString(NodeIP), svc.protocol, Itoa(svc.nodePort))
             w1 == IF svc.nodePort = 0 THEN ws
                   ELSE IF svc.local /\ ~hasActiveEndpoints(endpoints) THEN ws
                   ELSE IF bindAll
                   THEN IF FP("getAllLocalIPs", k, 0) \in fail THEN ws
                        ELSE IF Len(LocalIPs) = 0 THEN ws
                        ELSE nodePortServers(all.w, k, svc, endpoints, 1, 1,
                                             all.handles, all.ids, fail)
                   ELSE IF FP("ipvsAddService", k, 1) \in fail
                           \/ ipvsAddServiceErr(ws, ipvsSvcs, handle)
                   THEN ws
                   ELSE nodePortServers(resetActive(ipvsAddService(ws, handle), id), k, svc,
                                        endpoints, 1, 1, <<handle>>, <<id>>, fail)
         IN nodePortLoop(w1, sim, eim, Tail(order), ipvsSvcs, bindAll, fail)

\* a node-port pass that binds on nodeIP only, whatever nodeportBindOnAllIP says
nodePortServicesNodeIPOnly(w, sim, eim, order, bindAll, fail) ==
    IF FP("ipvsGetServices", "-", 0) \in fail THEN [w |-> w, err |-> TRUE]
    ELSE nodePortLoop(w, sim, eim, order, DOMAIN w.ipvs, FALSE, fail)

\* nsc.setupNodePortServices
nodePortServices(w, sim, eim, order, bindAll, fail) ==
    IF FP("ipvsGetServices", "-", 0) \in fail THEN [w |-> w, err |-> TRUE]
    ELSE nodePortLoop(w, sim, eim, order, DOMAIN w.ipvs, bindAll, fail)

\* the adapter calls of setupNodePortServices that can fail
nodePortFailPoints(sim, eim, bindAll) ==
    {FP("ipvsGetServices", "-", 0)}
    \cup UNION {
           (IF bindAll THEN {FP("getAllLocalIPs", k, 0)} ELSE {})
           \cup {FP("ipvsAddService", k, j) :
                    j \in 1..(IF bindAll THEN Len(LocalIPs) ELSE 1)}
           \cup {FP("ipvsAddServer", k, 10 * j + i) :
                    j \in 1..(IF bindAll THEN Len(LocalIPs) ELSE 1), i \in 1..Len(eim[k])}
           : k \in {x \in DOMAIN sim : sim[x].nodePort # 0} }

\* the characters of the model in ASCII order
Ascii == <<" ", "-", ".", "/", "0", "1", "2", "3", "4", "5", "6", "7", "8", "9", ":",
           "a", "b", "c", "d", "e", "f", "l", "n", "o", "p", "r", "t", "u", "x">>

CharRank(c) == CHOOSE i \in 1..Len(Ascii) : Ascii[i] = c

\* a < b, as Go compares strings
RECURSIVE StrLess(_, _)
StrLess(a, b) ==
    IF b = << >> THEN FALSE
    ELSE IF a = << >> THEN TRUE
    ELSE IF Head(a) = Head(b) THEN StrLess(Tail(a), Tail(b))
    ELSE CharRank(Head(a)) < CharRank(Head(b))

\* sets.String.List: the addresses sorted as strings
RECURSIVE SortedList(_)
SortedList(S) ==
    IF S = {} THEN << >>
    ELSE LET m == CHOOSE x \in S : \A y \in S \ {x} : StrLess(IPString(x), IPString(y))
         IN <<m>> \o SortedList(S \ {m})

\* a DSR cleanup that deletes the firewall-mark IPVS service too
cleanupDSRServiceAndIPVS(w, fwMark, k, n, fail) ==
    IF fwMark \notin DOMAIN w.fw THEN [w |-> w, err |-> TRUE]
    ELSE LET t == w.fw[fwMark]
             w1 == cleanupMangleTableRule(w, t.ip, t.protocol, t.port, fwMark)
         IN [w |-> [ipvsDelService(w1, FWMarkService(fwMark))
                       EXCEPT !.fw = MapDel(@, fwMark), !.destr = TRUE],
             err |-> FALSE]

\* a DSR cleanup that gives up, mark kept, when the mangle rule could not be removed
cleanupDSRServiceKeepMark(w, fwMark, k, n, fail) ==
    IF fwMark \notin DOMAIN w.fw THEN [w |-> w, err |-> TRUE]
    ELSE LET t == w.fw[fwMark]
             w1 == cleanupMangleTableRule(w, t.ip, t.protocol, t.port, fwMark)
         IN IF FP("SaveInto", k, n) \in fail \/ FP("cleanupMangleTableRule", k, n) \in fail
            THEN [w |-> w, err |-> TRUE]
            ELSE [w |-> [w1 EXCEPT !.fw = MapDel(@, fwMark), !.destr = TRUE], err |-> FALSE]

\* nsc.cleanupDSRService, its fail points named by (k, n)
cleanupDSRService(w, fwMark, k, n, fail) ==
    IF fwMark \notin DOMAIN w.fw THEN [w |-> w, err |-> TRUE]
    ELSE LET t == w.fw[fwMark]
             mangleTableRules == IF FP("SaveInto", k, n) \in fail THEN {}
                                 ELSE {mangleRuleLine(r) : r \in w.mangle}
             found == \E rule \in mangleTableRules :
                          /\ StrContains(rule, IPString(t.ip))
                          /\ StrContains(rule, FormatInt(fwMark, 16))
             w1 == IF found /\ FP("cleanupMangleTableRule", k, n) \notin fail
                   THEN cleanupMangleTableRule(w, t.ip, t.protocol, t.port, fwMark)
                   ELSE w
         IN [w |-> [w1 EXCEPT !.fw = MapDel(@, fwMark), !.destr = TRUE], err |-> FALSE]

\* the endpoint loop of setupExternalIPForService, from endpoint i on
RECURSIVE externalIPServers(_, _, _, _, _, _, _, _)
externalIPServers(w, k, svc, endpoints, i, n, handle, fail) ==
    IF i > Len(endpoints) THEN [w |-> w, err |-> FALSE]
    ELSE IF svc.local /\ ~endpoints[i].isLocal
    THEN externalIPServers(w, k, svc, endpoints, i + 1, n, handle, fail)
    ELSE IF FP("ipvsAddServer", k, 10 * n + i) \in fail \/ ipvsAddServerErr(w, handle)
    THEN [w |-> w, err |-> TRUE]
    ELSE externalIPServers(ipvsAddServer(w, handle, Destination(endpoints[i], FALSE)),
                           k, svc, endpoints, i + 1, n, handle, fail)

\* nsc.setupExternalIPForService for the n-th external IP of service k
setupExternalIPForService(w, k, svc, externalIP, endpoints, n, fail) ==
    LET handle == VirtualService(externalIP, convertSvcProtoToSysCallProto(svc.protocol),
                                 svc.port)
        w1 == ipAddrAdd(w, externalIP)
        w2 == ipvsAddService(w1, handle)
        fwMark == lookupFWMarkByService(w.fw, externalIP, svc.protocol, svc.port)
        c == cleanupDSRService(w2, fwMark, k, 10 * n, fail)
    IN IF FP("getKubeDummyInterface", k, 10 * n) \in fail THEN [w |-> w, err |-> TRUE]
       ELSE IF FP("ipvsGetServices", k, 10 * n) \in fail THEN [w |-> w, err |-> TRUE]
       ELSE IF FP("ipAddrAdd", k, 10 * n) \in fail THEN [w |-> w, err |-> TRUE]
       ELSE IF FP("ipvsAddService", k, 10 * n) \in fail
               \/ ipvsAddServiceErr(w1, DOMAIN w.ipvs, handle)
       THEN [w |-> w1, err |-> TRUE]
       ELSE IF fwMark # 0 /\ c.err THEN c
       ELSE externalIPServers(IF fwMark # 0 THEN c.w ELSE w2, k, svc, endpoints, 1, n,
                              handle, fail)

\* the endpoint loop of setupExternalIPForDSRService, from endpoint i on
RECURSIVE dsrServers(_, _, _, _, _, _, _, _, _)
dsrServers(w, k, svc, externalIP, endpoints, i, n, handle, fail) ==
    IF i > Len(endpoints) THEN [w |-> w, err |-> FALSE]
    ELSE IF svc.local /\ ~endpoints[i].isLocal
    THEN dsrServers(w, k, svc, externalIP, endpoints, i + 1, n, handle, fail)
    ELSE IF FP("ipvsAddServer", k, 10 * n + i) \in fail \/ ipvsAddServerErr(w, handle)
    THEN [w |-> w, err |-> TRUE]
    ELSE IF FP("addDSRIPInsidePodNetNamespace", k, 10 * n + i) \in fail
    THEN [w |-> ipvsAddServer(w, handle, Destination(endpoints[i], TRUE)), err |-> TRUE]
    ELSE dsrServers(
             addDSRIPInsidePodNetNamespace(
                 ipvsAddServer(w, handle, Destination(endpoints[i], TRUE)),
                 externalIP, endpoints[i].ip),
             k, svc, externalIP, endpoints, i + 1, n, handle, fail)

\* a DSR setup that takes the external IP off the dummy interface first of all
setupExternalIPForDSRServiceDelFirst(w, k, svc, externalIP, endpoints, n, fail) ==
    LET fwMark == generateUniqueFWMark(w.fw, externalIP, svc.protocol, svc.port)
        handle == FWMarkService(fwMark)
        w0 == ipAddrDel(w, externalIP)
        w1 == registerFWMark(w0, externalIP, svc.protocol, svc.port)
        w2 == ipvsAddService(w1, handle)
        w3 == setupMangleTableRule(w2, externalIP, svc.protocol, svc.port, fwMark)
        w5 == routeVIPTrafficToDirector(w3, fwMark)
    IN IF FP("getKubeDummyInterface", k, 10 * n) \in fail THEN [w |-> w, err |-> TRUE]
       ELSE IF FP("ipvsGetServices", k, 10 * n) \in fail THEN [w |-> w, err |-> TRUE]
       ELSE IF FP("ipAddrDel", k, 10 * n) \in fail THEN [w |-> w, err |-> TRUE]
       ELSE IF FP("generateUniqueFWMark", k, 10 * n) \in fail THEN [w |-> w0, err |-> TRUE]
       ELSE IF FP("ipvsAddFWMarkService", k, 10 * n) \in fail
               \/ ipvsAddServiceErr(w1, DOMAIN w.ipvs, handle)
       THEN [w |-> w1, err |-> TRUE]
       ELSE IF FP("setupMangleTableRule", k, 10 * n) \in fail THEN [w |-> w2, err |-> TRUE]
       ELSE IF FP("routeVIPTrafficToDirector", k, 10 * n) \in fail
       THEN [w |-> w3, err |-> TRUE]
       ELSE dsrServers(w5, k, svc, externalIP, endpoints, 1, n, handle, fail)

\* the DSR setup without the installation of the mangle rule
setupExternalIPForDSRServiceNoRule(w, k, svc, externalIP, endpoints, n, fail) ==
    LET fwMark == generateUniqueFWMark(w.fw, externalIP, svc.protocol, svc.port)
        handle == FWMarkService(fwMark)
        w1 == registerFWMark(w, externalIP, svc.protocol, svc.port)
        w2 == ipvsAddService(w1, handle)
        w4 == ipAddrDel(w2, externalIP)
        w5 == routeVIPTrafficToDirector(w4, fwMark)
    IN IF FP("getKubeDummyInterface", k, 10 * n) \in fail THEN [w |-> w, err |-> TRUE]
       ELSE IF FP("ipvsGetServices", k, 10 * n) \in fail THEN [w |-> w, err |-> TRUE]
       ELSE IF FP("generateUniqueFWMark", k, 10 * n) \in fail THEN [w |-> w, err |-> TRUE]
       ELSE IF FP("ipvsAddFWMarkService", k, 10 * n) \in fail
               \/ ipvsAddServiceErr(w1, DOMAIN w.ipvs, handle)
       THEN [w |-> w1, err |-> TRUE]
       ELSE IF FP("ipAddrDel", k, 10 * n) \in fail THEN [w |-> w2, err |-> TRUE]
       ELSE IF FP("routeVIPTrafficToDirector", k, 10 * n) \in fail
       THEN [w |-> w4, err |-> TRUE]
       ELSE dsrServers(w5, k, svc, externalIP, endpoints, 1, n, handle, fail)

\* nsc.setupExternalIPForDSRService for the n-th external IP of service k
setupExternalIPForDSRService(w, k, svc, externalIP, endpoints, n, fail) ==
    LET fwMark == generateUniqueFWMark(w.fw, externalIP, svc.protocol, svc.port)
        handle == FWMarkService(fwMark)
        w1 == registerFWMark(w, externalIP, svc.protocol, svc.port)
        w2 == ipvsAddService(w1, handle)
        w3 == setupMangleTableRule(w2, externalIP, svc.protocol, svc.port, fwMark)
        w4 == ipAddrDel(w3, externalIP)
        w5 == routeVIPTrafficToDirector(w4, fwMark)
    IN IF FP("getKubeDummyInterface", k, 10 * n) \in fail THEN [w |-> w, err |-> TRUE]
       ELSE IF FP("ipvsGetServices", k, 10 * n) \in fail THEN [w |-> w, err |-> TRUE]
       ELSE IF FP("generateUniqueFWMark", k, 10 * n) \in fail THEN [w |-> w, err |-> TRUE]
       ELSE IF FP("ipvsAddFWMarkService", k, 10 * n) \in fail
               \/ ipvsAddServiceErr(w1, DOMAIN w.ipvs, handle)
       THEN [w |-> w1, err |-> TRUE]
       ELSE IF FP("setupMangleTableRule", k, 10 * n) \in fail THEN [w |-> w2, err |-> TRUE]
       ELSE IF FP("ipAddrDel", k, 10 * n) \in fail THEN [w |-> w3, err |-> TRUE]
       ELSE IF FP("routeVIPTrafficToDirector", k, 10 * n) \in fail
       THEN [w |-> w4, err |-> TRUE]
       ELSE dsrServers(w5, k, svc, externalIP, endpoints, 1, n, handle, fail)

\* the endpoint IDs setupExternalIPServices records under id, from endpoint i on
RECURSIVE externalIPActive(_, _, _, _, _)
externalIPActive(w, svc, endpoints, i, id) ==
    IF i > Len(endpoints) THEN w
    ELSE externalIPActive(
             IF ~svc.local \/ (svc.local /\ endpoints[i].isLocal)
             THEN appendActive(w, id, endpointID(endpoints[i]))
             ELSE w,
             svc, endpoints, i + 1, id)

isDSR(svc) == svc.directServerReturn /\ svc.directServerReturnMethod = tunnelInterfaceType

\* the loop of setupExternalIPServices over the external IPs of service k, from the n-th on
RECURSIVE externalIPs(_, _, _, _, _, _, _)
externalIPs(w, k, svc, endpoints, ips, n, fail) ==
    IF n > Len(ips) THEN [w |-> w, err |-> FALSE]
    ELSE LET externalIP == ips[n]
             r == IF isDSR(svc)
                  THEN setupExternalIPForDSRService(w, k, svc, externalIP, endpoints, n, fail)
                  ELSE setupExternalIPForService(w, k, svc, externalIP, endpoints, n, fail)
             externalIPServiceID ==
                 IF isDSR(svc)
                 THEN Itoa(lookupFWMarkByService(r.w.fw, externalIP, svc.protocol, svc.port))
                 ELSE generateIPPortID(IPString(externalIP), svc.protocol, Itoa(svc.port))
         IN IF r.err THEN r
            ELSE externalIPs(
                     externalIPActive(resetActive(r.w, externalIPServiceID), svc, endpoints,
                                      1, externalIPServiceID),
                     k, svc, endpoints, ips, n + 1, fail)

\* nsc.setupExternalIPServices: the service loop over the services still to visit
RECURSIVE externalIPServices(_, _, _, _, _)
externalIPServices(w, sim, eim, order, fail) ==
    IF order = << >> THEN [w |-> w, err |-> FALSE]
    ELSE LET k == Head(order)
             svc == sim[k]
             endpoints == eim[k]
             ws == [w EXCEPT !.seen = @ \cup {k}]
             r == externalIPs(ws, k, svc, endpoints, SortedList(extIPSet(svc)), 1, fail)
         IN IF extIPSet(svc) = {} THEN externalIPServices(ws, sim, eim, Tail(order), fail)
            ELSE IF svc.local /\ ~hasActiveEndpoints(endpoints)
            THEN externalIPServices(ws, sim, eim, Tail(order), fail)
            ELSE IF r.err THEN r
            ELSE externalIPServices(r.w, sim, eim, Tail(order), fail)

\* the adapter calls of setupExternalIPServices that can fail
externalIPFailPoints(sim, eim) ==
    UNION {
       UNION {
          (IF isDSR(sim[k])
           THEN {FP(op, k, 10 * n) : op \in {"getKubeDummyInterface", "ipvsGetServices",
                     "generateUniqueFWMark", "ipvsAddFWMarkService", "setupMangleTableRule",
                     "ipAddrDel", "routeVIPTrafficToDirector"}}
                \cup {FP(op, k, 10 * n + i) :
                         op \in {"ipvsAddServer", "addDSRIPInsidePodNetNamespace"},
                         i \in 1..Len(eim[k])}
           ELSE {FP(op, k, 10 * n) : op \in {"getKubeDummyInterface", "ipvsGetServices",
                     "ipAddrAdd", "ipvsAddService", "SaveInto", "cleanupMangleTableRule"}}
                \cup {FP("ipvsAddServer", k, 10 * n + i) : i \in 1..Len(eim[k])})
          : n \in 1..Cardinality(extIPSet(sim[k])) }
       : k \in DOMAIN sim }

(***************************************************************************)
(* Garbage-collection sweeps.                                              *)
(***************************************************************************)
\* addrActive built from the whole keys instead of their address field
addrActiveWholeKey(active) == DOMAIN active

\* the addrActive map of cleanupStaleVIPs: first field of every key with a dash
addrActive(active) == {SplitFirst(k) : k \in {x \in DOMAIN active : StrContains(x, <<"-">>)}}

\* the address loop of cleanupStaleVIPs over the listed addresses, from the j-th on
RECURSIVE staleVIPLoop(_, _, _, _, _)
staleVIPLoop(w, active, addrs, j, fail) ==
    IF j > Len(addrs) THEN w
    ELSE staleVIPLoop(
             IF IPString(addrs[j]) \in active \/ FP("ipAddrDel", "-", j) \in fail THEN w
             ELSE ipAddrDel(w, addrs[j]),
             active, addrs, j + 1, fail)

\* nsc.cleanupStaleVIPs
staleVIPs(w, fail) ==
    IF FP("getKubeDummyInterface", "-", 0) \in fail THEN [w |-> w, err |-> TRUE]
    ELSE IF FP("AddrList", "-", 0) \in fail THEN [w |-> w, err |-> TRUE]
    ELSE [w |-> staleVIPLoop(w, addrActive(w.active), SetToSeq(w.addrs), 1, fail),
          err |-> FALSE]

staleVIPFailPoints(w) ==
    {FP("getKubeDummyInterface", "-", 0), FP("AddrList", "-", 0)}
    \cup {FP("ipAddrDel", "-", j) : j \in 1..Cardinality(w.addrs)}

\* the excluded test that never matches
isExcludedNever(ipvsSvc) == FALSE

\* the excluded test of cleanupStaleIPVSConfig
isExcluded(ipvsSvc) == \E excludedCidr \in excludedCidrs : CidrContains(excludedCidr, ipvsSvc.Address)

\* no key: the default case of the key switch of cleanupStaleIPVSConfig
NoKey == <<"?">>

\* the key switch without the firewall-mark case
staleKeyAddressOnly(ipvsSvc) ==
    IF ipvsSvc.Address # NoAddr
    THEN generateIPPortID(IPString(ipvsSvc.Address),
                          convertSysCallProtoToSvcProto(ipvsSvc.Protocol), Itoa(ipvsSvc.Port))
    ELSE NoKey

\* the key cleanupStaleIPVSConfig computes for a listed service
staleKey(ipvsSvc) ==
    IF ipvsSvc.Address # NoAddr
    THEN generateIPPortID(IPString(ipvsSvc.Address),
                          convertSysCallProtoToSvcProto(ipvsSvc.Protocol), Itoa(ipvsSvc.Port))
    ELSE IF ipvsSvc.FWMark # 0 THEN Itoa(ipvsSvc.FWMark)
    ELSE NoKey

\* the destination loop of cleanupStaleIPVSConfig for the j-th listed service
RECURSIVE staleDestinations(_, _, _, _, _, _, _)
staleDestinations(w, ipvsSvc, dsts, d, endpointIDs, j, fail) ==
    IF d > Len(dsts) THEN w
    ELSE LET dst == dsts[d]
             validEp == \E e \in 1..Len(endpointIDs) :
                            endpointIDs[e] = generateEndpointID(IPString(dst.Address),
                                                                Itoa(dst.Port))
         IN staleDestinations(
                IF validEp \/ FP("ipvsDeleteDestination", "-", 10 * j + d) \in fail THEN w
                ELSE ipvsDeleteDestination(w, ipvsSvc, dst),
                ipvsSvc, dsts, d + 1, endpointIDs, j, fail)

\* cleanupStaleIPVSConfig without the sweep of the real servers of an active service
staleServiceNoSweep(w, ipvsSvc, j, fail) ==
    LET protocol == convertSysCallProtoToSvcProto(ipvsSvc.Protocol)
        key == staleKey(ipvsSvc)
        c == cleanupDSRService(w, ipvsSvc.FWMark, "-", j, fail)
        w1 == IF ipvsSvc.FWMark # 0 /\ ipvsSvc.FWMark \in DOMAIN w.fw THEN c.w ELSE w
    IN IF protocol = noneProtocol /\ ipvsSvc.FWMark = 0 THEN w
       ELSE IF key = NoKey THEN w
       ELSE IF key \notin DOMAIN w.active
       THEN IF isExcluded(ipvsSvc) THEN w
            ELSE IF FP("ipvsDelService", "-", j) \in fail THEN w1
            ELSE ipvsDelService(w1, ipvsSvc)
       ELSE w

\* a sweep that also deletes a service whose active endpoint list is empty
staleServiceDeleteEmpty(w, ipvsSvc, j, fail) ==
    LET protocol == convertSysCallProtoToSvcProto(ipvsSvc.Protocol)
        key == staleKey(ipvsSvc)
        c == cleanupDSRService(w, ipvsSvc.FWMark, "-", j, fail)
        w1 == IF ipvsSvc.FWMark # 0 /\ ipvsSvc.FWMark \in DOMAIN w.fw THEN c.w ELSE w
        dsts == IF FP("ipvsGetDestinations", "-", j) \in fail THEN << >>
                ELSE SetToSeq(w.ipvs[ipvsSvc])
    IN IF protocol = noneProtocol /\ ipvsSvc.FWMark = 0 THEN w
       ELSE IF key = NoKey THEN w
       ELSE IF key \notin DOMAIN w.active \/ w.active[key] = << >>
       THEN IF isExcluded(ipvsSvc) THEN w
            ELSE IF FP("ipvsDelService", "-", j) \in fail THEN w1
            ELSE ipvsDelService(w1, ipvsSvc)
       ELSE staleDestinations(w, ipvsSvc, dsts, 1, w.active[key], j, fail)

\* a sweep that does not pass over the services of a protocol it cannot convert
staleServiceNoProtocolSkip(w, ipvsSvc, j, fail) ==
    LET key == staleKey(ipvsSvc)
        c == cleanupDSRService(w, ipvsSvc.FWMark, "-", j, fail)
        w1 == IF ipvsSvc.FWMark # 0 /\ ipvsSvc.FWMark \in DOMAIN w.fw THEN c.w ELSE w
        dsts == IF FP("ipvsGetDestinations", "-", j) \in fail THEN << >>
                ELSE SetToSeq(w.ipvs[ipvsSvc])
    IN IF key = NoKey THEN w
       ELSE IF key \notin DOMAIN w.active
       THEN IF isExcluded(ipvsSvc) THEN w
            ELSE IF FP("ipvsDelService", "-", j) \in fail THEN w1
            ELSE ipvsDelService(w1, ipvsSvc)
       ELSE staleDestinations(w, ipvsSvc, dsts, 1, w.active[key], j, fail)

\* a sweep that tears the DSR pieces down only after the IPVS service was deleted
staleServiceDeleteFirst(w, ipvsSvc, j, fail) ==
    LET protocol == convertSysCallProtoToSvcProto(ipvsSvc.Protocol)
        key == staleKey(ipvsSvc)
        c == cleanupDSRService(w, ipvsSvc.FWMark, "-", j, fail)
        w1 == IF ipvsSvc.FWMark # 0 /\ ipvsSvc.FWMark \in DOMAIN w.fw THEN c.w ELSE w
        dsts == IF FP("ipvsGetDestinations", "-", j) \in fail THEN << >>
                ELSE SetToSeq(w.ipvs[ipvsSvc])
    IN IF protocol = noneProtocol /\ ipvsSvc.FWMark = 0 THEN w
       ELSE IF key = NoKey THEN w
       ELSE IF key \notin DOMAIN w.active
       THEN IF isExcluded(ipvsSvc) THEN w
            ELSE IF FP("ipvsDelService", "-", j) \in fail THEN w
            ELSE ipvsDelService(w1, ipvsSvc)
       ELSE staleDestinations(w, ipvsSvc, dsts, 1, w.active[key], j, fail)

\* what cleanupStaleIPVSConfig does for the j-th listed service
staleService(w, ipvsSvc, j, fail) ==
    LET protocol == convertSysCallProtoToSvcProto(ipvsSvc.Protocol)
        key == staleKey(ipvsSvc)
        c == cleanupDSRService(w, ipvsSvc.FWMark, "-", j, fail)
        w1 == IF ipvsSvc.FWMark # 0 /\ ipvsSvc.FWMark \in DOMAIN w.fw THEN c.w ELSE w
        dsts == IF FP("ipvsGetDestinations", "-", j) \in fail THEN << >>
                ELSE SetToSeq(w.ipvs[ipvsSvc])
    IN IF protocol = noneProtocol /\ ipvsSvc.FWMark = 0 THEN w
       ELSE IF key = NoKey THEN w
       ELSE IF key \notin DOMAIN w.active
       THEN IF isExcluded(ipvsSvc) THEN w
            ELSE IF FP("ipvsDelService", "-", j) \in fail THEN w1
            ELSE ipvsDelService(w1, ipvsSvc)
       ELSE staleDestinations(w, ipvsSvc, dsts, 1, w.active[key], j, fail)

\* the service loop of cleanupStaleIPVSConfig over the listing, from the j-th on
RECURSIVE staleIPVSLoop(_, _, _, _)
staleIPVSLoop(w, ipvsSvcs, j, fail) ==
    IF j > Len(ipvsSvcs) THEN w
    ELSE staleIPVSLoop(staleService(w, ipvsSvcs[j], j, fail), ipvsSvcs, j + 1, fail)

\* nsc.cleanupStaleIPVSConfig
staleIPVSConfig(w, fail) ==
    IF FP("ipvsGetServices", "-", 0) \in fail THEN [w |-> w, err |-> TRUE]
    ELSE [w |-> staleIPVSLoop(w, SetToSeq(DOMAIN w.ipvs), 1, fail), err |-> FALSE]

staleIPVSFailPoints(w) ==
    {FP("ipvsGetServices", "-", 0)}
    \cup {FP(op, "-", j) : op \in {"ipvsGetDestinations", "ipvsDelService", "SaveInto",
                                    "cleanupMangleTableRule"},
                           j \in 1..Cardinality(DOMAIN w.ipvs)}
    \cup UNION {{FP("ipvsDeleteDestination", "-", 10 * j + d) :
                    d \in 1..Cardinality(w.ipvs[SetToSeq(DOMAIN w.ipvs)[j]])}
                : j \in 1..Cardinality(DOMAIN w.ipvs)}

\* a metrics sweep with the test inverted: it drops the entries of active keys
staleMetricsInverted(metrics, active) == [k \in DOMAIN metrics \ DOMAIN active |-> metrics[k]]

\* nsc.cleanupStaleMetrics
staleMetrics(metrics, active) == [k \in DOMAIN metrics \cap DOMAIN active |-> metrics[k]]

(***************************************************************************)
(* The orchestrator, syncIpvsServices.                                     *)
(***************************************************************************)
StepOrder == <<"setupClusterIPServices", "setupNodePortServices", "setupExternalIPServices",
               "cleanupStaleVIPs", "cleanupStaleIPVSConfig", "cleanupStaleMetrics",
               "syncIpvsFirewall", "setupForDSR">>

\* an orchestrator that ends the pass at the first step that returns an error
afterStepAbort(step, err) ==
    LET i == CHOOSE j \in 1..Len(StepOrder) : StepOrder[j] = step
    IN IF err \/ i = Len(StepOrder) THEN "done" ELSE StepOrder[i + 1]

\* the step syncIpvsServices invokes after `step` returned with error `err`
afterStep(step, err) ==
    LET i == CHOOSE j \in 1..Len(StepOrder) : StepOrder[j] = step
    IN IF i = Len(StepOrder) THEN "done" ELSE StepOrder[i + 1]

\* what syncIpvsServices returns
syncResult(hadErrors) == "nil"

\* the sets of at most n fail points of P
RECURSIVE FailSets(_, _)
FailSets(P, n) ==
    IF n <= 0 THEN {{}}
    ELSE FailSets(P, n - 1) \cup {f \cup {p} : f \in FailSets(P, n - 1), p \in P}

\* adapter failures injected in the current pass
passFailures == failures - prev.failures

HostState ==
    [addrs |-> dummyAddrs, ipvs |-> ipvs, mangle |-> mangle, fw |-> fwMarkMap]

\* a step returned r with the calls of `fail` failing: the state syncIpvsServices goes on with
Commit(step, r, fail) ==
    /\ dummyAddrs' = r.w.addrs
    /\ ipvs' = r.w.ipvs
    /\ mangle' = r.w.mangle
    /\ ipRules' = r.w.rules
    /\ podVips' = r.w.pods
    /\ fwMarkMap' = r.w.fw
    /\ activeServiceEndpointMap' = r.w.active
    /\ attempted' = r.w.seen
    /\ destructive' = r.w.destr
    /\ syncErrors' = (syncErrors \/ r.err)
    /\ failures' = failures + Cardinality(fail)
    /\ lastFail' = fail
    /\ ensured' = r.w.ens
    /\ passFail' = passFail \cup {<<step, p>> : p \in fail}
    /\ steps' = Append(steps, step)
    /\ pc' = afterStep(step, r.err)
    /\ returned' = IF afterStep(step, r.err) = "done" THEN syncResult(syncErrors \/ r.err)
                   ELSE returned
    /\ UNCHANGED <<serviceInfoMap, endpointsInfoMap, nodeportBindOnAllIP, passNo, prev,
                   dsrMark, dsrErr, listed, listedKey>>

\* syncIpvsServices is called with a desired state: a pass starts
syncIpvsServices ==
    /\ pc \in {"idle", "done"}
    /\ passNo < MaxPasses
    /\ \E in \in (IF pc = "idle" THEN Inputs
                  ELSE NextInputs([svcs |-> serviceInfoMap, eps |-> endpointsInfoMap])) :
          /\ serviceInfoMap' = in.svcs
          /\ endpointsInfoMap' = in.eps
          /\ prev' = [ran |-> pc = "done",
                      clean |-> (pc = "done" /\ failures = prev.failures),
                      stable |-> (in.svcs = serviceInfoMap /\ in.eps = endpointsInfoMap),
                      failures |-> failures, host |-> HostState]
    /\ activeServiceEndpointMap' = EmptyMap
    /\ syncErrors' = FALSE
    /\ steps' = << >>
    /\ attempted' = {}
    /\ destructive' = FALSE
    /\ lastFail' = {}
    /\ ensured' = {}
    /\ passFail' = {}
    /\ passNo' = passNo + 1
    /\ pc' = StepOrder[1]
    /\ UNCHANGED <<nodeportBindOnAllIP, dummyAddrs, ipvs, mangle, ipRules, podVips,
                   fwMarkMap, metricsMap, returned, failures, dsrMark, dsrErr, listed,
                   listedKey>>

setupClusterIPServices ==
    /\ pc = "setupClusterIPServices"
    /\ \E order \in Orders(DOMAIN serviceInfoMap),
          fail \in FailSets(clusterIPFailPoints(serviceInfoMap, endpointsInfoMap),
                            MaxFailures - failures) :
          Commit("setupClusterIPServices",
                 clusterIPServices(World, serviceInfoMap, endpointsInfoMap, order, fail), fail)
    /\ UNCHANGED metricsMap

setupNodePortServices ==
    /\ pc = "setupNodePortServices"
    /\ \E order \in Orders(DOMAIN serviceInfoMap),
          fail \in FailSets(nodePortFailPoints(serviceInfoMap, endpointsInfoMap,
                                               nodeportBindOnAllIP),
                            MaxFailures - failures) :
          Commit("setupNodePortServices",
                 nodePortServices(World, serviceInfoMap, endpointsInfoMap, order,
                                  nodeportBindOnAllIP, fail), fail)
    /\ UNCHANGED metricsMap

setupExternalIPServices ==
    /\ pc = "setupExternalIPServices"
    /\ \E order \in Orders(DOMAIN serviceInfoMap),
          fail \in FailSets(externalIPFailPoints(serviceInfoMap, endpointsInfoMap),
                            MaxFailures - failures) :
          Commit("setupExternalIPServices",
                 externalIPServices(World, serviceInfoMap, endpointsInfoMap, order, fail),
                 fail)
    /\ UNCHANGED metricsMap

cleanupStaleVIPs ==
    /\ pc = "cleanupStaleVIPs"
    /\ \E fail \in FailSets(staleVIPFailPoints(World), MaxFailures - failures) :
          Commit("cleanupStaleVIPs", staleVIPs(World, fail), fail)
    /\ UNCHANGED metricsMap

cleanupStaleIPVSConfig ==
    /\ pc = "cleanupStaleIPVSConfig"
    /\ \E fail \in FailSets(staleIPVSFailPoints(World), MaxFailures - failures) :
          Commit("cleanupStaleIPVSConfig", staleIPVSConfig(World, fail), fail)
    /\ UNCHANGED metricsMap

cleanupStaleMetrics ==
    /\ pc = "cleanupStaleMetrics"
    /\ metricsMap' = staleMetrics(metricsMap, activeServiceEndpointMap)
    /\ Commit("cleanupStaleMetrics", [w |-> World, err |-> FALSE], {})

\* nsc.syncIpvsFirewall: the firewall is outside the model; the call may fail
syncIpvsFirewall ==
    /\ pc = "syncIpvsFirewall"
    /\ \E fail \in FailSets({FP("syncIpvsFirewall", "-", 0)}, MaxFailures - failures) :
          Commit("syncIpvsFirewall", [w |-> World, err |-> fail # {}], fail)
    /\ UNCHANGED metricsMap

\* nsc.setupForDSR: policy routing is outside the model; either call may fail
setupForDSR ==
    /\ pc = "setupForDSR"
    /\ \E fail \in FailSets({FP("setupPolicyRoutingForDSR", "-", 0),
                             FP("setupRoutesForExternalIPForDSR", "-", 0)},
                            MaxFailures - failures) :
          Commit("setupForDSR", [w |-> World, err |-> fail # {}], fail)
    /\ UNCHANGED metricsMap

(***************************************************************************)
(* The host before the first pass: anything an earlier process or another  *)
(* actor may have left.  The mark registry of this process starts empty.   *)
(***************************************************************************)
staleDst == [Address |-> <<10, 1, 0, 9>>, Port |-> 8080, tunnel |-> FALSE]

keyA == generateIPPortID(IPString(<<10, 0, 0, 1>>), tcpProtocol, Itoa(80))
keyStale == generateIPPortID(IPString(StaleIP), tcpProtocol, Itoa(80))

PreStates ==
    { [addrs |-> {}, ipvs |-> EmptyMap, mangle |-> {}, metrics |-> EmptyMap],
      [addrs |-> {<<10, 0, 0, 1>>, StaleIP, ExternalIP},
       ipvs |-> [v \in {VirtualService(<<10, 0, 0, 1>>, 6, 80), VirtualService(StaleIP, 6, 80),
                        VirtualService(ForeignIP, 6, 80), VirtualService(StaleIP, 132, 80),
                        VirtualService(NodeIP, 6, 30080),
                        FWMarkService(1330), FWMarkService(77)} |-> {staleDst}],
       mangle |-> {mangleRule(ExternalIP, tcpProtocol, 80, 1330),
                   mangleRule(StaleIP, tcpProtocol, 80, 77)},
       metrics |-> [k \in {keyA, keyStale} |-> <<"labels">>]] }

\* the controller and the host before the first pass
InitHost ==
    /\ \E h \in PreStates :
          /\ dummyAddrs = h.addrs
          /\ ipvs = h.ipvs
          /\ mangle = h.mangle
          /\ metricsMap = h.metrics
    /\ nodeportBindOnAllIP \in BOOLEAN
    /\ serviceInfoMap = EmptyMap
    /\ endpointsInfoMap = EmptyMap
    /\ ipRules = {}
    /\ podVips = {}
    /\ fwMarkMap = EmptyMap
    /\ activeServiceEndpointMap = EmptyMap
    /\ syncErrors = FALSE
    /\ pc = "idle"
    /\ returned = "none"
    /\ steps = << >>
    /\ attempted = {}
    /\ destructive = FALSE
    /\ failures = 0
    /\ lastFail = {}
    /\ ensured = {}
    /\ passFail = {}
    /\ passNo = 0
    /\ prev = [ran |-> FALSE, clean |-> FALSE, stable |-> FALSE, failures |-> 0,
               host |-> [addrs |-> {}, ipvs |-> EmptyMap, mangle |-> {}, fw |-> EmptyMap]]

\* no listed service is under study
NoListing == <<"-">>

Init ==
    /\ InitHost
    /\ dsrMark = 0
    /\ dsrErr = "none"
    /\ listed = NoHandle
    /\ listedKey = NoListing

Next ==
    \/ syncIpvsServices
    \/ setupClusterIPServices
    \/ setupNodePortServices
    \/ setupExternalIPServices
    \/ cleanupStaleVIPs
    \/ cleanupStaleIPVSConfig
    \/ cleanupStaleMetrics
    \/ syncIpvsFirewall
    \/ setupForDSR

Spec == Init /\ [][Next]_vars

(***************************************************************************)
(* The key computation of cleanupStaleIPVSConfig on its own, over the      *)
(* values an ipvs.Service of the listing can hold.                         *)
(***************************************************************************)
ListedServices ==
    [Address : {NoAddr, ExternalIP, StaleIP, ForeignIP}, Protocol : {0, 6, 17, 132},
     Port : {0, 80, 443, 30080}, FWMark : {0, 77, 1330, 1331}]

\* the service is skipped without a key
Skipped == <<"skip">>

KeyInit ==
    /\ InitHost
    /\ dsrMark = 0
    /\ dsrErr = "none"
    /\ listed \in ListedServices
    /\ listedKey = NoListing

\* the head of the loop of cleanupStaleIPVSConfig: protocol test and key switch
computeKey ==
    /\ listedKey = NoListing
    /\ listedKey' = IF convertSysCallProtoToSvcProto(listed.Protocol) = noneProtocol
                 /\ listed.FWMark = 0
              THEN Skipped
              ELSE IF staleKey(listed) = NoKey THEN Skipped ELSE staleKey(listed)
    /\ UNCHANGED <<serviceInfoMap, endpointsInfoMap, nodeportBindOnAllIP, dummyAddrs,
                   ipvs, mangle, ipRules, podVips, fwMarkMap, metricsMap,
                   activeServiceEndpointMap, syncErrors, pc, returned, steps,
                   attempted, destructive, failures, lastFail, ensured, passFail, passNo,
                   prev, dsrMark, dsrErr, listed>>

KeyNext == computeKey

KeySpec == KeyInit /\ [][KeyNext]_vars

(***************************************************************************)
(* cleanupDSRService on its own, over the registries, mangle tables and    *)
(* marks it can be called with.                                            *)
(***************************************************************************)
Registries ==
    { EmptyMap,
      [m \in {1330} |-> fwTuple(ExternalIP, tcpProtocol, 80)],
      [m \in {1330, 1331} |-> IF m = 1330 THEN fwTuple(ExternalIP, tcpProtocol, 443)
                                          ELSE fwTuple(ExternalIP, tcpProtocol, 80)],
      [m \in {77} |-> fwTuple(StaleIP, tcpProtocol, 80)] }

MangleTables ==
    SUBSET { mangleRule(ExternalIP, tcpProtocol, 80, 1330),
             mangleRule(ExternalIP, tcpProtocol, 80, 1331),
             mangleRule(ExternalIP, tcpProtocol, 443, 1330),
             mangleRule(StaleIP, tcpProtocol, 80, 77) }

Marks == {77, 1330, 1331, 1332}

DSRInit ==
    /\ fwMarkMap \in Registries
    /\ mangle \in MangleTables
    /\ dsrMark \in Marks
    /\ dsrErr = "none"
    /\ pc = "cleanupDSRService"
    /\ dummyAddrs = {}
    /\ ipvs = EmptyMap
    /\ metricsMap = EmptyMap
    /\ nodeportBindOnAllIP = FALSE
    /\ serviceInfoMap = EmptyMap
    /\ endpointsInfoMap = EmptyMap
    /\ ipRules = {}
    /\ podVips = {}
    /\ activeServiceEndpointMap = EmptyMap
    /\ syncErrors = FALSE
    /\ returned = "none"
    /\ steps = << >>
    /\ attempted = {}
    /\ destructive = FALSE
    /\ failures = 0
    /\ lastFail = {}
    /\ ensured = {}
    /\ passFail = {}
    /\ passNo = 0
    /\ prev = [ran |-> FALSE, clean |-> FALSE, stable |-> FALSE, failures |-> 0,
               host |-> [addrs |-> {}, ipvs |-> EmptyMap, mangle |-> {}, fw |-> EmptyMap]]
    /\ listed = NoHandle
    /\ listedKey = NoListing

\* a call of nsc.cleanupDSRService(dsrMark), with any of its adapter calls failing
callCleanupDSRService ==
    /\ pc = "cleanupDSRService"
    /\ \E fail \in SUBSET {FP("SaveInto", "-", 0), FP("cleanupMangleTableRule", "-", 0)} :
          LET r == cleanupDSRService(World, dsrMark, "-", 0, fail)
          IN /\ mangle' = r.w.mangle
             /\ fwMarkMap' = r.w.fw
             /\ destructive' = r.w.destr
             /\ dsrErr' = IF r.err THEN "error" ELSE "nil"
             /\ lastFail' = fail
    /\ pc' = "returned"
    /\ UNCHANGED <<serviceInfoMap, endpointsInfoMap, nodeportBindOnAllIP, dummyAddrs,
                   ipvs, ipRules, podVips, metricsMap, activeServiceEndpointMap,
                   syncErrors, returned, steps, attempted, failures, ensured, passFail,
                   passNo, prev, dsrMark, listed, listedKey>>

DSRNext == callCleanupDSRService

DSRSpec == DSRInit /\ [][DSRNext]_vars

(***************************************************************************)
(* Properties.                                                             *)
(***************************************************************************)
\* a pass has completed and no adapter call failed in it
CleanPassDone == pc = "done" /\ passFailures = 0

\* the virtual service of the cluster IP of desired service k
clusterService(k) ==
    VirtualService(serviceInfoMap[k].clusterIP,
                   convertSvcProtoToSysCallProto(serviceInfoMap[k].protocol),
                   serviceInfoMap[k].port)

\* C1: after a complete pass without adapter failure every desired service has
\* its cluster IP on the dummy interface and a virtual service at
\* (clusterIP, protocol, port), whatever the host held before the pass.
C1_ClusterIPInstalled ==
    CleanPassDone =>
        \A k \in DOMAIN serviceInfoMap :
            /\ serviceInfoMap[k].clusterIP \in dummyAddrs
            /\ clusterService(k) \in DOMAIN ipvs

\* a pass over two services completed from a host that held stale objects
C1_Witness ==
    /\ CleanPassDone
    /\ passNo = 1
    /\ DOMAIN serviceInfoMap = {"a", "b"}
    /\ VirtualService(StaleIP, 6, 80) \in DOMAIN prev.host.ipvs
    /\ <<10, 0, 0, 2>> \in dummyAddrs
    /\ clusterService("b") \in DOMAIN ipvs

\* the desired services set up for Direct Server Return
DSRServices == {k \in DOMAIN serviceInfoMap : isDSR(serviceInfoMap[k])}

\* the external-IP pass skips service k: local, and no endpoint on this node
skippedLocal(k) ==
    serviceInfoMap[k].local /\ ~hasActiveEndpoints(endpointsInfoMap[k])

\* the mark the registry holds for external IP ip of service k (0: none)
markOf(k, ip) ==
    lookupFWMarkByService(fwMarkMap, ip, serviceInfoMap[k].protocol, serviceInfoMap[k].port)

\* external IP ip of DSR service k is set up as the VIP-less director requires
dsrInstalled(k, ip) ==
    /\ ip \notin dummyAddrs
    /\ markOf(k, ip) # 0
    /\ FWMarkService(markOf(k, ip)) \in DOMAIN ipvs
    /\ Cardinality({r \in mangle :
                      /\ r.ip = ip
                      /\ r.protocol = serviceInfoMap[k].protocol
                      /\ r.port = serviceInfoMap[k].port
                      /\ r.mark = markOf(k, ip)}) = 1

\* a desired service that is not DSR has external IP ip too
sharedWithNonDSR(ip) ==
    \E k \in DOMAIN serviceInfoMap \ DSRServices : ip \in extIPSet(serviceInfoMap[k])

\* C2 as claimed: after a complete pass every external IP of every desired DSR
\* service is off the dummy interface, has a firewall-mark virtual service keyed
\* by its allocated mark, and exactly one mangle rule for the tuple with that mark.
C2_AsClaimed ==
    CleanPassDone =>
        \A k \in DSRServices : \A ip \in extIPSet(serviceInfoMap[k]) : dsrInstalled(k, ip)

\* C2 amended: the same, for the DSR services the external-IP pass does not skip
\* (not local, or with an endpoint on this node) and the external IPs that no
\* desired non-DSR service has too, after a pass without adapter failure.
C2_DSRInstalled ==
    CleanPassDone =>
        \A k \in DSRServices : \A ip \in extIPSet(serviceInfoMap[k]) :
            (~skippedLocal(k) /\ ~sharedWithNonDSR(ip)) => dsrInstalled(k, ip)

\* a DSR external IP that was on the dummy interface before the pass is set up
C2_Witness ==
    /\ CleanPassDone
    /\ passNo = 1
    /\ ExternalIP \in prev.host.addrs
    /\ "a" \in DSRServices
    /\ ~skippedLocal("a")
    /\ ~sharedWithNonDSR(ExternalIP)
    /\ dsrInstalled("a", ExternalIP)

\* the real servers of virtual service v as ip:port pairs (none when v is absent)
serversOf(v) ==
    IF v \in DOMAIN ipvs THEN {<<d.Address, d.Port>> : d \in ipvs[v]} ELSE {}

endpointsOf(k) == {endpointsInfoMap[k][i] : i \in 1..Len(endpointsInfoMap[k])}

\* the endpoints of service k that pass the local-policy predicate as the spec states it
policyEndpoints(k) ==
    {<<e.ip, e.port>> : e \in {x \in endpointsOf(k) :
        \/ ~serviceInfoMap[k].local
        \/ x.isLocal
        \/ (serviceInfoMap[k].local /\ ~hasActiveEndpoints(endpointsInfoMap[k]))}}

\* the addresses node-port services are created on
nodePortAddrs ==
    IF nodeportBindOnAllIP THEN {LocalIPs[j] : j \in 1..Len(LocalIPs)} ELSE {NodeIP}

nodePortVS(k) ==
    IF serviceInfoMap[k].nodePort = 0 THEN {}
    ELSE {VirtualService(ip, convertSvcProtoToSysCallProto(serviceInfoMap[k].protocol),
                         serviceInfoMap[k].nodePort) : ip \in nodePortAddrs}

\* the virtual service of external IP ip of service k
externalVS(k, ip) ==
    IF k \in DSRServices THEN FWMarkService(markOf(k, ip))
    ELSE VirtualService(ip, convertSvcProtoToSysCallProto(serviceInfoMap[k].protocol),
                        serviceInfoMap[k].port)

\* another desired service has the same external (ip, protocol, port)
tupleShared(k, ip) ==
    \E k2 \in DOMAIN serviceInfoMap \ {k} :
        /\ ip \in extIPSet(serviceInfoMap[k2])
        /\ serviceInfoMap[k2].protocol = serviceInfoMap[k].protocol
        /\ serviceInfoMap[k2].port = serviceInfoMap[k].port

\* C3 as claimed: after a complete pass the real servers of every virtual
\* service of every desired service (cluster IP, node port, external IP) are
\* exactly the endpoints e with !local || e.isLocal || (local && no endpoint local).
C3_AsClaimed ==
    CleanPassDone =>
        \A k \in DOMAIN serviceInfoMap :
            /\ serversOf(clusterService(k)) = policyEndpoints(k)
            /\ \A v \in nodePortVS(k) : serversOf(v) = policyEndpoints(k)
            /\ \A ip \in extIPSet(serviceInfoMap[k]) :
                   serversOf(externalVS(k, ip)) = policyEndpoints(k)

\* C3 amended: after a complete pass without adapter failure the cluster-IP
\* virtual service of every desired service has exactly the endpoints passing
\* the predicate; a local service without endpoint on this node has no node-port
\* and no external-IP virtual service, and any other service has exactly the
\* passing endpoints on each of them, where no other desired service has the
\* same external (ip, protocol, port).
C3_RealServers ==
    CleanPassDone =>
        \A k \in DOMAIN serviceInfoMap :
            /\ serversOf(clusterService(k)) = policyEndpoints(k)
            /\ \A v \in nodePortVS(k) :
                   IF skippedLocal(k) THEN v \notin DOMAIN ipvs
                   ELSE v \in DOMAIN ipvs /\ serversOf(v) = policyEndpoints(k)
            /\ \A ip \in extIPSet(serviceInfoMap[k]) :
                   ~tupleShared(k, ip) =>
                       IF skippedLocal(k) THEN externalVS(k, ip) \notin DOMAIN ipvs
                       ELSE /\ externalVS(k, ip) \in DOMAIN ipvs
                            /\ serversOf(externalVS(k, ip)) = policyEndpoints(k)

\* a local service with endpoints on and off this node lost the stale real
\* server of its cluster IP and has only the local endpoint everywhere
C3_Witness ==
    /\ CleanPassDone
    /\ clusterService("a") \in DOMAIN prev.host.ipvs
    /\ staleDst \in prev.host.ipvs[clusterService("a")]
    /\ serviceInfoMap["a"].local
    /\ endpointsInfoMap["a"] = <<epLocal, epRemote>>
    /\ extIPSet(serviceInfoMap["a"]) = {ExternalIP}
    /\ "a" \notin DSRServices
    /\ serversOf(clusterService("a")) = {<<epLocal.ip, epLocal.port>>}
    /\ \A v \in nodePortVS("a") : serversOf(v) = {<<epLocal.ip, epLocal.port>>}
    /\ serversOf(externalVS("a", ExternalIP)) = {<<epLocal.ip, epLocal.port>>}

\* address ip lies inside a configured excluded CIDR
inExcludedCidr(ip) == \E cidr \in excludedCidrs : CidrContains(cidr, ip)

\* the activeSet key virtual service v corresponds to: the decimal mark of a
\* firewall-mark service, "<ip>-<proto>-<port>" of any other
keyOfService(v) ==
    IF v.FWMark # 0 THEN Itoa(v.FWMark)
    ELSE generateIPPortID(IPString(v.Address), convertSysCallProtoToSvcProto(v.Protocol),
                          Itoa(v.Port))

\* dummy-interface address ip belongs to some key of activeSet
addressActive(ip) ==
    \E key \in DOMAIN activeServiceEndpointMap :
        DashCount(key) >= 2 /\ SplitFirst(key) = IPString(ip)

\* C4 as claimed: after a complete pass from any host state no dummy-interface
\* address, IPVS virtual service or mangle rule corresponds to a key outside
\* activeSet, except objects inside an excluded CIDR.
C4_AsClaimed ==
    CleanPassDone =>
        /\ \A ip \in dummyAddrs : addressActive(ip) \/ inExcludedCidr(ip)
        /\ \A v \in DOMAIN ipvs :
               keyOfService(v) \in DOMAIN activeServiceEndpointMap \/ inExcludedCidr(v.Address)
        /\ \A r \in mangle :
               Itoa(r.mark) \in DOMAIN activeServiceEndpointMap \/ inExcludedCidr(r.ip)

\* C4 amended: after a complete pass without adapter failure, from any host
\* state, no dummy-interface address, no IPVS virtual service that is TCP, UDP
\* or keyed by a firewall mark, and no mangle rule whose mark is in the mark
\* registry corresponds to a key outside activeSet, except objects inside an
\* excluded CIDR.
C4_NoStaleObjects ==
    CleanPassDone =>
        /\ \A ip \in dummyAddrs : addressActive(ip) \/ inExcludedCidr(ip)
        /\ \A v \in DOMAIN ipvs :
               (v.FWMark # 0 \/ v.Protocol \in {6, 17}) =>
                   \/ keyOfService(v) \in DOMAIN activeServiceEndpointMap
                   \/ inExcludedCidr(v.Address)
        /\ \A r \in mangle :
               r.mark \in DOMAIN fwMarkMap =>
                   Itoa(r.mark) \in DOMAIN activeServiceEndpointMap \/ inExcludedCidr(r.ip)

\* a pass over the leftover host removed the stale address, the stale TCP
\* service and the stale firewall-mark service, and released the mark of a
\* service that stopped being DSR together with its mangle rule
C4_Witness ==
    /\ CleanPassDone
    /\ passNo = 2
    /\ StaleIP \notin dummyAddrs
    /\ VirtualService(StaleIP, 6, 80) \notin DOMAIN ipvs
    /\ FWMarkService(77) \notin DOMAIN ipvs
    /\ 1330 \in DOMAIN prev.host.fw
    /\ mangleRule(ExternalIP, tcpProtocol, 80, 1330) \in prev.host.mangle
    /\ 1330 \notin DOMAIN fwMarkMap
    /\ mangleRule(ExternalIP, tcpProtocol, 80, 1330) \notin mangle
    /\ mangleRule(StaleIP, tcpProtocol, 80, 77) \in mangle

\* a second complete pass on the input of the first, neither with an adapter failure
SecondPassDone == CleanPassDone /\ prev.ran /\ prev.clean /\ prev.stable

\* C5: a second pass on identical input leaves the dummy-interface addresses,
\* IPVS services and real servers, mangle rules and mark registry as the first
\* pass left them, and performs no destructive mutation.
C5_Idempotent ==
    SecondPassDone => (HostState = prev.host /\ ~destructive)

\* the step that has just returned is one of the three reconcile steps
ReconcileStepReturned ==
    /\ steps # << >>
    /\ steps[Len(steps)] \in {"setupClusterIPServices", "setupNodePortServices",
                              "setupExternalIPServices"}

\* C6: when a reconcile step has entered its loop over the desired services,
\* every desired service is attempted in it, whatever failed for another one.
C6_EveryServiceAttempted ==
    ReconcileStepReturned => attempted \in {{}, DOMAIN serviceInfoMap}

\* C7: the steps of a pass are invoked in the fixed order, each once, whether or
\* not an earlier step returned an error, and syncIpvsServices returns nil.
C7_FixedOrder ==
    /\ Len(steps) <= Len(StepOrder)
    /\ \A i \in 1..Len(steps) : steps[i] = StepOrder[i]
    /\ pc \notin {"idle", "done"} => pc = StepOrder[Len(steps) + 1]
    /\ pc = "done" => (steps = StepOrder /\ returned = "nil")

\* a pass is over in which a step returned an error
C7_Witness == pc = "done" /\ syncErrors /\ steps = StepOrder /\ returned = "nil"

\* service k is local and has endpoints, none of them on this node
localAllRemote(k) ==
    /\ serviceInfoMap[k].local
    /\ endpointsInfoMap[k] # << >>
    /\ ~hasActiveEndpoints(endpointsInfoMap[k])

clusterKey(k) ==
    generateIPPortID(IPString(serviceInfoMap[k].clusterIP), serviceInfoMap[k].protocol,
                     Itoa(serviceInfoMap[k].port))

\* the endpoint IDs recorded in activeSet under key (none when the key is absent)
activeIDs(key) ==
    IF key \in DOMAIN activeServiceEndpointMap
    THEN {activeServiceEndpointMap[key][i] : i \in 1..Len(activeServiceEndpointMap[key])}
    ELSE {}

\* C8 as claimed: for a local service whose endpoints are all non-local a pass
\* installs no real server on the cluster-IP virtual service, which is present,
\* and the activeSet entry of its key is the empty list.
C8_AsClaimed ==
    CleanPassDone =>
        \A k \in DOMAIN serviceInfoMap :
            localAllRemote(k) =>
                /\ clusterService(k) \in DOMAIN ipvs
                /\ serversOf(clusterService(k)) = {}
                /\ clusterKey(k) \in DOMAIN activeServiceEndpointMap
                /\ activeServiceEndpointMap[clusterKey(k)] = << >>

\* C8 amended: for a local service whose endpoints are all non-local a pass
\* without adapter failure installs every endpoint as a real server of the
\* cluster-IP virtual service, which is present, and the activeSet entry of its
\* key lists the ID of every endpoint.
C8_AllEndpointsWhenNoneLocal ==
    CleanPassDone =>
        \A k \in DOMAIN serviceInfoMap :
            localAllRemote(k) =>
                /\ clusterService(k) \in DOMAIN ipvs
                /\ serversOf(clusterService(k)) = {<<e.ip, e.port>> : e \in endpointsOf(k)}
                /\ clusterKey(k) \in DOMAIN activeServiceEndpointMap
                /\ activeIDs(clusterKey(k)) = {endpointID(e) : e \in endpointsOf(k)}

\* a local service with only a remote endpoint has it on its cluster IP
C8_Witness ==
    /\ CleanPassDone
    /\ "a" \in DOMAIN serviceInfoMap
    /\ localAllRemote("a")
    /\ endpointsInfoMap["a"] = <<epRemote>>
    /\ serversOf(clusterService("a")) = {<<epRemote.ip, epRemote.port>>}

\* C9: the stale-IPVS sweep keeps every virtual service whose address is inside
\* an excluded CIDR and whose key is not in activeSet, with its real servers.
C9_ExcludedKept ==
    [][pc = "cleanupStaleIPVSConfig" =>
          \A v \in DOMAIN ipvs :
              (inExcludedCidr(v.Address)
                 /\ keyOfService(v) \notin DOMAIN activeServiceEndpointMap) =>
                  (v \in DOMAIN ipvs' /\ ipvs'[v] = ipvs[v])]_vars

\* the sweep of a second pass has run and the foreign service is still there
C9_Witness ==
    /\ passNo = 2
    /\ steps # << >>
    /\ steps[Len(steps)] = "cleanupStaleIPVSConfig"
    /\ passFailures = 0
    /\ VirtualService(StaleIP, 6, 80) \in DOMAIN prev.host.ipvs
    /\ VirtualService(StaleIP, 6, 80) \notin DOMAIN ipvs
    /\ VirtualService(ForeignIP, 6, 80) \in DOMAIN ipvs
    /\ ipvs[VirtualService(ForeignIP, 6, 80)] = {staleDst}
    /\ keyOfService(VirtualService(ForeignIP, 6, 80)) \notin DOMAIN activeServiceEndpointMap

\* a normal key "<ip>-<proto>-<port>", or the decimal form of a non-zero mark
wellFormedKey(key) ==
    \/ DashCount(key) >= 2
    \/ /\ key # << >>
       /\ \A i \in 1..Len(key) : \E d \in 1..10 : key[i] = Digits[d]
       /\ key[1] # "0"

ReconcileStep ==
    pc \in {"setupClusterIPServices", "setupNodePortServices", "setupExternalIPServices"}

\* the real servers in set dsts as ip:port pairs
serverPairs(dsts) == {<<d.Address, d.Port>> : d \in dsts}

\* every virtual service and every real server is still there after the step
IPVSKept ==
    \A v \in DOMAIN ipvs :
        /\ v \in DOMAIN ipvs'
        /\ serverPairs(ipvs[v]) \subseteq serverPairs(ipvs'[v])

\* ip is an external IP of a desired service with directServerReturn and method tunnel
dsrExternalIP(ip) ==
    \E k \in DOMAIN serviceInfoMap :
        /\ serviceInfoMap[k].directServerReturn
        /\ serviceInfoMap[k].directServerReturnMethod = tunnelInterfaceType
        /\ ip \in extIPSet(serviceInfoMap[k])

\* C11 as claimed: a reconcile step deletes no IPVS virtual service, no real
\* server and no dummy-interface address.
C11_AsClaimed ==
    [][ReconcileStep => (IPVSKept /\ dummyAddrs \subseteq dummyAddrs')]_vars

\* C11 amended: a reconcile step deletes no IPVS virtual service and no real
\* server, and the only dummy-interface address it removes is an external IP
\* of a desired DSR service.
C11_ReconcileKeeps ==
    [][ReconcileStep =>
          (IPVSKept /\ \A ip \in dummyAddrs \ dummyAddrs' : dsrExternalIP(ip))]_vars

\* the external-IP step took a DSR external IP off the dummy interface and
\* left every virtual service of the leftover host in place
C11_Witness ==
    /\ passNo = 1
    /\ steps # << >>
    /\ steps[Len(steps)] = "setupExternalIPServices"
    /\ ExternalIP \in prev.host.addrs
    /\ ExternalIP \notin dummyAddrs
    /\ dsrExternalIP(ExternalIP)
    /\ destructive
    /\ DOMAIN prev.host.ipvs \subseteq DOMAIN ipvs

\* C12: the stale-metrics sweep leaves in the metrics-label map only keys of
\* this pass's activeSet, leaves the entries of those keys unchanged, and
\* reports no error.
C12_MetricsSwept ==
    [][pc = "cleanupStaleMetrics" =>
          /\ DOMAIN metricsMap' \subseteq DOMAIN activeServiceEndpointMap
          /\ \A k \in DOMAIN metricsMap \cap DOMAIN activeServiceEndpointMap :
                 k \in DOMAIN metricsMap' /\ metricsMap'[k] = metricsMap[k]
          /\ syncErrors' = syncErrors
          /\ pc' = "syncIpvsFirewall"]_vars

\* the sweep dropped the stale entry of the leftover map and kept the active one
C12_Witness ==
    /\ Len(steps) >= 6
    /\ steps[6] = "cleanupStaleMetrics"
    /\ keyA \in DOMAIN activeServiceEndpointMap
    /\ keyStale \notin DOMAIN activeServiceEndpointMap
    /\ DOMAIN metricsMap = {keyA}
    /\ metricsMap[keyA] = <<"labels">>

\* setupClusterIPServices has just returned
ClusterIPStepReturned ==
    steps # << >> /\ steps[Len(steps)] = "setupClusterIPServices"

\* the cluster-IP pass handled service k to the end: address, virtual service, key
clusterIPHandled(k) ==
    /\ serviceInfoMap[k].clusterIP \in dummyAddrs
    /\ clusterService(k) \in DOMAIN ipvs
    /\ clusterKey(k) \in DOMAIN activeServiceEndpointMap

\* C13: in the cluster-IP pass a cluster IP that is already on the dummy
\* interface counts as added (the service gets its virtual service and its
\* key), and when the dummy-interface or the address step fails for one
\* service, every other service is still handled.
C13_AddressErrors ==
    ClusterIPStepReturned =>
        /\ lastFail = {} => \A k \in DOMAIN serviceInfoMap : clusterIPHandled(k)
        /\ \A k1 \in DOMAIN serviceInfoMap :
               lastFail \in {{FP("getKubeDummyInterface", k1, 0)}, {FP("ipAddrAdd", k1, 0)}} =>
                   \A k \in DOMAIN serviceInfoMap \ {k1} : clusterIPHandled(k)

\* setupNodePortServices has just returned
NodePortStepReturned ==
    steps # << >> /\ steps[Len(steps)] = "setupNodePortServices"

\* the activeSet key of node-port virtual service v of service k
nodePortKey(k, v) ==
    generateIPPortID(IPString(v.Address), serviceInfoMap[k].protocol,
                     Itoa(serviceInfoMap[k].nodePort))

\* the endpoints of service k with !svc.local || e.isLocal
localPolicyEndpoints(k) ==
    {e \in endpointsOf(k) : ~serviceInfoMap[k].local \/ e.isLocal}

\* the node-port pass gives service k no node-port virtual service
nodePortSkipped(k) == serviceInfoMap[k].nodePort = 0 \/ skippedLocal(k)

\* the pass created node-port virtual service v of k: one key, the passing endpoints
nodePortCreated(k, v) ==
    /\ v \in DOMAIN ipvs
    /\ nodePortKey(k, v) \in DOMAIN activeServiceEndpointMap
    /\ Len(activeServiceEndpointMap[nodePortKey(k, v)]) = Cardinality(localPolicyEndpoints(k))
    /\ activeIDs(nodePortKey(k, v)) = {endpointID(e) : e \in localPolicyEndpoints(k)}
    /\ {<<e.ip, e.port>> : e \in localPolicyEndpoints(k)} \subseteq serversOf(v)

\* C14: the node-port pass gives a service with nodePort 0, or local without
\* local endpoint, no virtual service and no key, and the sweep removes one
\* left from before; any other service gets one virtual service per local
\* address with nodeportBindOnAllIP, else one on nodeIP, and every virtual
\* service created has one key "<addr>-<proto>-<nodePort>" listing the
\* endpoints e with !svc.local || e.isLocal, which are its real servers.
C14_NodePortPass ==
    /\ NodePortStepReturned =>
           \A k \in DOMAIN serviceInfoMap :
               IF nodePortSkipped(k)
               THEN \A v \in nodePortVS(k) :
                        /\ nodePortKey(k, v) \notin DOMAIN activeServiceEndpointMap
                        /\ v \in DOMAIN ipvs => v \in DOMAIN prev.host.ipvs
               ELSE /\ lastFail = {} => \A v \in nodePortVS(k) : nodePortCreated(k, v)
                    /\ \A j \in 1..Len(LocalIPs) :
                           lastFail = {FP("ipvsAddService", k, j)} =>
                               \A v \in nodePortVS(k) :
                                   \/ nodeportBindOnAllIP /\ v.Address = LocalIPs[j]
                                   \/ ~nodeportBindOnAllIP
                                   \/ nodePortCreated(k, v)
    /\ CleanPassDone =>
           \A k \in DOMAIN serviceInfoMap :
               nodePortSkipped(k) => \A v \in nodePortVS(k) : v \notin DOMAIN ipvs

\* with bind-all a local service has a node-port service on each local
\* address, the one left on nodeIP included, each with the local endpoint only
C14_Witness ==
    /\ NodePortStepReturned
    /\ nodeportBindOnAllIP
    /\ lastFail = {}
    /\ VirtualService(NodeIP, 6, 30080) \in DOMAIN prev.host.ipvs
    /\ serviceInfoMap["a"].local
    /\ endpointsInfoMap["a"] = <<epLocal, epRemote>>
    /\ Cardinality(nodePortVS("a")) = 2
    /\ \A v \in nodePortVS("a") :
           /\ nodePortCreated("a", v)
           /\ activeServiceEndpointMap[nodePortKey("a", v)] = <<endpointID(epLocal)>>

listingIndex(v) == CHOOSE j \in 1..Cardinality(DOMAIN ipvs) : SetToSeq(DOMAIN ipvs)[j] = v

\* the firewall-mark services the stale-IPVS sweep finds without an active key
staleMarkServices ==
    {v \in DOMAIN ipvs : v.FWMark # 0 /\ Itoa(v.FWMark) \notin DOMAIN activeServiceEndpointMap}

\* the DSR teardown of mark m is done in the next state
tornDown(m, j) ==
    /\ m \notin DOMAIN fwMarkMap'
    /\ lastFail' \cap {FP("SaveInto", "-", j), FP("cleanupMangleTableRule", "-", j)} = {}
          => mangleRule(fwMarkMap[m].ip, fwMarkMap[m].protocol, fwMarkMap[m].port, m)
                 \notin mangle'

\* C16: in the stale-IPVS sweep the DSR teardown of a stale firewall-mark service
\* (mangle rule removed, mark released) is done before the IPVS deletion, so it is
\* done even when the deletion fails; a mark unknown to the registry or a failing
\* teardown is only logged and the virtual service is deleted all the same.
C16_TeardownThenDelete ==
    [][(pc = "cleanupStaleIPVSConfig" /\ FP("ipvsGetServices", "-", 0) \notin lastFail')
         => \A v \in staleMarkServices :
               /\ v.FWMark \in DOMAIN fwMarkMap => tornDown(v.FWMark, listingIndex(v))
               /\ FP("ipvsDelService", "-", listingIndex(v)) \notin lastFail'
                     => v \notin DOMAIN ipvs']_vars

C16_Witness ==
    /\ passNo = 2
    /\ Len(steps) >= 5 /\ steps[Len(steps)] = "cleanupStaleIPVSConfig"
    /\ lastFail = {}
    /\ \E m \in DOMAIN prev.host.fw :
          /\ FWMarkService(m) \in DOMAIN prev.host.ipvs
          /\ mangleRule(prev.host.fw[m].ip, prev.host.fw[m].protocol, prev.host.fw[m].port, m)
                 \in prev.host.mangle
          /\ Itoa(m) \notin DOMAIN activeServiceEndpointMap
          /\ m \notin DOMAIN fwMarkMap
          /\ FWMarkService(m) \notin DOMAIN ipvs
          /\ mangleRule(prev.host.fw[m].ip, prev.host.fw[m].protocol, prev.host.fw[m].port, m)
                 \notin mangle

\* the adapter calls of setupExternalIPForDSRService, in the order the claim gives
dsrOps == <<"generateUniqueFWMark", "ipvsAddFWMarkService", "setupMangleTableRule",
            "ipAddrDel", "routeVIPTrafficToDirector">>

\* no other desired service has external IP ip
soleUser(k, ip) ==
    \A k2 \in DOMAIN serviceInfoMap \ {k} : ip \notin extIPSet(serviceInfoMap[k2])

\* the effect of the j-th DSR call for tuple (ip, protocol, port) and mark m is
\* present in the host state (fw, vs, mg, addrs, rules)
dsrStepDone(j, ip, protocol, port, m, fw, vs, mg, addrs, rules) ==
    CASE j = 1 -> m # 0 /\ lookupFWMarkByService(fw, ip, protocol, port) = m
      [] j = 2 -> m # 0 /\ FWMarkService(m) \in vs
      [] j = 3 -> m # 0 /\ mangleRule(ip, protocol, port, m) \in mg
      [] j = 4 -> ip \notin addrs
      [] j = 5 -> m # 0 /\ m \in rules

\* the real servers of the firewall-mark service of mark m in IPVS table t
markServers(t, m) == IF m # 0 /\ FWMarkService(m) \in DOMAIN t THEN t[FWMarkService(m)] ELSE {}

\* the endpoint loop of the DSR setup of (k, ip) stopped at stop = <<i, op>>: the
\* call op of endpoint i failed (an i past the last endpoint: the loop ran to its end)
dsrEndpointsOrdered(k, ip, m, stop) ==
    LET svc == serviceInfoMap[k]
        endpoints == endpointsInfoMap[k]
    IN \A i \in 1..Len(endpoints) :
          LET visited == ~(svc.local /\ ~endpoints[i].isLocal)
              dst == Destination(endpoints[i], TRUE)
              vip == <<endpoints[i].ip, ip>>
              serverDone == visited /\ (i < stop[1]
                                        \/ (i = stop[1] /\ stop[2] # "ipvsAddServer"))
              vipDone == visited /\ i < stop[1]
          IN /\ serverDone => dst \in markServers(ipvs', m)
             /\ ~serverDone => (dst \in markServers(ipvs', m) => dst \in markServers(ipvs, m))
             /\ vipDone => vip \in podVips'
             /\ ~vipDone => (vip \in podVips' => vip \in podVips)

\* the DSR setup of external IP ip of service k ran its calls in the order of
\* dsrOps, then the endpoint loop, and stopped at the call that failed
dsrOrdered(k, ip) ==
    LET svc == serviceInfoMap[k]
        m == lookupFWMarkByService(fwMarkMap', ip, svc.protocol, svc.port)
        done(j) == dsrStepDone(j, ip, svc.protocol, svc.port, m, fwMarkMap', DOMAIN ipvs',
                               mangle', dummyAddrs', ipRules')
        was(j) == dsrStepDone(j, ip, svc.protocol, svc.port, m, fwMarkMap, DOMAIN ipvs,
                              mangle, dummyAddrs, ipRules)
    IN /\ \A n \in 1..Len(dsrOps) :
            lastFail' = {FP(dsrOps[n], k, 10)} =>
                /\ \A j \in 1..(n - 1) : done(j)
                /\ \A j \in n..Len(dsrOps) : done(j) => was(j)
                /\ dsrEndpointsOrdered(k, ip, m, <<1, "ipvsAddServer">>)
       /\ \A i \in 1..Len(endpointsInfoMap[k]) :
            \A op \in {"ipvsAddServer", "addDSRIPInsidePodNetNamespace"} :
                lastFail' = {FP(op, k, 10 + i)} =>
                    /\ \A j \in 1..Len(dsrOps) : done(j)
                    /\ dsrEndpointsOrdered(k, ip, m, <<i, op>>)
       /\ lastFail' = {} =>
            /\ \A j \in 1..Len(dsrOps) : done(j)
            /\ dsrEndpointsOrdered(k, ip, m, <<Len(endpointsInfoMap[k]) + 1, "ipvsAddServer">>)

\* C17: the cluster-IP pass and the non-DSR external-IP setup add the address to
\* the dummy interface before they ensure the virtual service; the DSR setup of an
\* external IP allocates the mark, ensures the firewall-mark service, installs the
\* mangle rule, removes the external IP from the dummy interface, adds the policy
\* routing rule, then per endpoint adds the tunnel real server and injects the VIP
\* in the pod; the call that fails is the last one made for that external IP.
C17_StepOrder ==
    [][/\ pc = "setupClusterIPServices" =>
            \A k \in DOMAIN serviceInfoMap :
                /\ lastFail' = {FP("ipAddrAdd", k, 0)} =>
                      /\ serviceInfoMap[k].clusterIP \in dummyAddrs'
                             => serviceInfoMap[k].clusterIP \in dummyAddrs
                      /\ clusterService(k) \in DOMAIN ipvs' => clusterService(k) \in DOMAIN ipvs
                /\ lastFail' = {FP("ipvsAddService", k, 0)} =>
                      /\ serviceInfoMap[k].clusterIP \in dummyAddrs'
                      /\ clusterService(k) \in DOMAIN ipvs' => clusterService(k) \in DOMAIN ipvs
       /\ pc = "setupExternalIPServices" =>
            \A k \in DOMAIN serviceInfoMap : \A ip \in extIPSet(serviceInfoMap[k]) :
                (soleUser(k, ip) /\ ~skippedLocal(k)) =>
                    IF k \in DSRServices THEN dsrOrdered(k, ip)
                    ELSE /\ lastFail' = {FP("ipAddrAdd", k, 10)} =>
                               /\ ip \in dummyAddrs' => ip \in dummyAddrs
                               /\ externalVS(k, ip) \in DOMAIN ipvs'
                                      => externalVS(k, ip) \in DOMAIN ipvs
                         /\ lastFail' = {FP("ipvsAddService", k, 10)} =>
                               /\ ip \in dummyAddrs'
                               /\ externalVS(k, ip) \in DOMAIN ipvs'
                                      => externalVS(k, ip) \in DOMAIN ipvs]_vars

C17_Witness ==
    /\ passNo = 1
    /\ steps # << >> /\ steps[Len(steps)] = "setupExternalIPServices"
    /\ lastFail = {FP("ipAddrDel", "a", 10)}
    /\ "a" \in DSRServices /\ soleUser("a", ExternalIP)
    /\ markOf("a", ExternalIP) # 0
    /\ FWMarkService(markOf("a", ExternalIP)) \in DOMAIN ipvs
    /\ mangleRule(ExternalIP, tcpProtocol, 80, markOf("a", ExternalIP)) \in mangle
    /\ ExternalIP \in dummyAddrs
    /\ markOf("a", ExternalIP) \notin ipRules
    /\ podVips = {}

\* the mark the registry held for external IP ip of service k when the pass started
oldMark(k, ip) ==
    lookupFWMarkByService(prev.host.fw, ip, serviceInfoMap[k].protocol, serviceInfoMap[k].port)

\* external IP ip of service k was set up as DSR when the pass started
wasDSR(k, ip) ==
    /\ prev.ran
    /\ oldMark(k, ip) # 0
    /\ FWMarkService(oldMark(k, ip)) \in DOMAIN prev.host.ipvs
    /\ mangleRule(ip, serviceInfoMap[k].protocol, serviceInfoMap[k].port, oldMark(k, ip))
           \in prev.host.mangle

\* external IP ip of service k is set up as a plain external IP and nothing of
\* its DSR setup is left
dsrReplaced(k, ip) ==
    /\ markOf(k, ip) = 0
    /\ mangleRule(ip, serviceInfoMap[k].protocol, serviceInfoMap[k].port, oldMark(k, ip))
           \notin mangle
    /\ FWMarkService(oldMark(k, ip)) \notin DOMAIN ipvs
    /\ ip \in dummyAddrs
    /\ externalVS(k, ip) \in DOMAIN ipvs
    /\ generateIPPortID(IPString(ip), serviceInfoMap[k].protocol, Itoa(serviceInfoMap[k].port))
           \in DOMAIN activeServiceEndpointMap

\* C18 as claimed: when a tuple set up as DSR in an earlier pass is desired as
\* non-DSR, then after the pass completes without adapter failure the registry
\* holds no mark for it, its mangle rule and old firewall-mark service are gone,
\* the external IP is on the dummy interface and its virtual service exists with
\* its key in activeSet.
C18_AsClaimed ==
    CleanPassDone =>
        \A k \in DOMAIN serviceInfoMap \ DSRServices : \A ip \in extIPSet(serviceInfoMap[k]) :
            wasDSR(k, ip) => dsrReplaced(k, ip)

\* C19: the stale-IPVS sweep deletes no virtual service whose protocol is neither
\* TCP nor UDP and which has no firewall mark, and none of its real servers.
C19_OtherProtocolKept ==
    [][pc = "cleanupStaleIPVSConfig" =>
          \A v \in DOMAIN ipvs :
              (v.Protocol \notin {6, 17} /\ v.FWMark = 0)
                  => (v \in DOMAIN ipvs' /\ ipvs'[v] = ipvs[v])]_vars

C19_Witness ==
    /\ passNo = 1
    /\ Len(steps) >= 5 /\ steps[Len(steps)] = "cleanupStaleIPVSConfig"
    /\ lastFail = {}
    /\ VirtualService(StaleIP, 132, 80) \in DOMAIN ipvs
    /\ ipvs[VirtualService(StaleIP, 132, 80)] = {staleDst}
    /\ VirtualService(StaleIP, 6, 80) \notin DOMAIN ipvs
    /\ StaleIP \notin dummyAddrs

\* the stale-IPVS sweep looks service v up in activeSet and finds its key
activeListed(v) ==
    /\ ~(convertSysCallProtoToSvcProto(v.Protocol) = noneProtocol /\ v.FWMark = 0)
    /\ staleKey(v) # NoKey
    /\ staleKey(v) \in DOMAIN activeServiceEndpointMap

\* C20: the stale-IPVS sweep deletes no virtual service whose key is in activeSet;
\* when the endpoint list recorded for the key is empty it deletes every real
\* server of the service and keeps the service.
C20_ActiveKept ==
    [][pc = "cleanupStaleIPVSConfig" =>
          \A v \in DOMAIN ipvs :
              activeListed(v) =>
                  /\ v \in DOMAIN ipvs'
                  /\ (activeServiceEndpointMap[staleKey(v)] = << >> /\ lastFail' = {})
                        => ipvs'[v] = {}]_vars

C20_Witness ==
    /\ passNo = 1
    /\ Len(steps) >= 5 /\ steps[Len(steps)] = "cleanupStaleIPVSConfig"
    /\ lastFail = {}
    /\ endpointsInfoMap["a"] = << >>
    /\ clusterService("a") \in DOMAIN prev.host.ipvs
    /\ prev.host.ipvs[clusterService("a")] = {staleDst}
    /\ keyA \in DOMAIN activeServiceEndpointMap
    /\ activeServiceEndpointMap[keyA] = << >>
    /\ clusterService("a") \in DOMAIN ipvs
    /\ ipvs[clusterService("a")] = {}

\* the endpoint ID of real server dst
serverID(dst) == generateEndpointID(IPString(dst.Address), Itoa(dst.Port))

\* every endpoint ID recorded under a key belongs to a real server ipvsAddServer
\* accepted in this pass on the virtual service of that key
recordedWereEnsured ==
    \A id \in DOMAIN activeServiceEndpointMap :
        \A i \in 1..Len(activeServiceEndpointMap[id]) :
            \E p \in ensured :
                /\ p[1] # NoHandle
                /\ keyOfService(p[1]) = id
                /\ serverID(p[2]) = activeServiceEndpointMap[id][i]

\* every real server ipvsAddServer accepted in this pass is recorded under the
\* key of its virtual service
ensuredAreRecorded ==
    \A p \in ensured :
        p[1] # NoHandle =>
            /\ keyOfService(p[1]) \in DOMAIN activeServiceEndpointMap
            /\ \E i \in 1..Len(activeServiceEndpointMap[keyOfService(p[1])]) :
                   activeServiceEndpointMap[keyOfService(p[1])][i] = serverID(p[2])

\* C21 as claimed: the endpoint IDs recorded under the keys of activeSet are those
\* of the real servers whose ensure call on the key's virtual service succeeded in
\* this pass, no more and no fewer.
C21_AsClaimed == ReconcileStepReturned => (recordedWereEnsured /\ ensuredAreRecorded)

\* the endpoints the cluster-IP pass installs for service k
clusterEndpoints(k) ==
    {endpointsInfoMap[k][i] : i \in
        {j \in 1..Len(endpointsInfoMap[k]) :
            ~(serviceInfoMap[k].local /\ hasActiveEndpoints(endpointsInfoMap[k])
              /\ ~endpointsInfoMap[k][j].isLocal)}}

\* the cluster IP of service k is fully installed in host state h
clusterInstalled(k, h) ==
    /\ serviceInfoMap[k].clusterIP \in h.addrs
    /\ clusterService(k) \in DOMAIN h.ipvs
    /\ \A e \in clusterEndpoints(k) : Destination(e, FALSE) \in h.ipvs[clusterService(k)]

\* every adapter call that failed in this pass was made for another service than
\* k, or was the IPVS listing that opens a reconcile step
failedForOthers(k) ==
    /\ passFail # {}
    /\ \A f \in passFail :
          \/ f[2][2] \in DOMAIN serviceInfoMap \ {k}
          \/ /\ f[1] \in {"setupClusterIPServices", "setupNodePortServices",
                          "setupExternalIPServices"}
             /\ f[2] = FP("ipvsGetServices", "-", 0)

\* C22: a desired service that was fully installed before a pass keeps its
\* dummy-interface address, virtual service and real servers through a pass in
\* which adapter calls fail only for other services or for the IPVS listing that
\* opens a reconcile step.
C22_InstalledSurvive ==
    (pc = "done" /\ prev.ran) =>
        \A k \in DOMAIN serviceInfoMap :
            (clusterInstalled(k, prev.host) /\ failedForOthers(k))
                => clusterInstalled(k, HostState)

\* the mangle rule of the tuple the registry holds for mark m
ruleOfMark(m) == mangleRule(fwMarkMap[m].ip, fwMarkMap[m].protocol, fwMarkMap[m].port, m)

\* C23: cleanupDSRService(mark) returns an error and changes neither the registry
\* nor the mangle table when the registry has no tuple for the mark; when it has
\* one the call returns success and releases the mark, also when the mangle table
\* could not be dumped or the removal of the rule failed, the rule then remaining.
C23_CleanupDSRService ==
    [][pc = "cleanupDSRService" =>
          /\ dsrMark \notin DOMAIN fwMarkMap =>
                (dsrErr' = "error" /\ fwMarkMap' = fwMarkMap /\ mangle' = mangle)
          /\ dsrMark \in DOMAIN fwMarkMap =>
                /\ dsrErr' = "nil"
                /\ fwMarkMap' = MapDel(fwMarkMap, dsrMark)
                /\ lastFail' # {} => mangle' = mangle
                /\ lastFail' = {} => mangle' = mangle \ {ruleOfMark(dsrMark)}]_vars

C23_Witness ==
    /\ pc = "returned"
    /\ dsrErr = "nil"
    /\ lastFail = {FP("cleanupMangleTableRule", "-", 0)}
    /\ dsrMark = 1331
    /\ DOMAIN fwMarkMap = {1330}
    /\ mangleRule(ExternalIP, tcpProtocol, 80, 1331) \in mangle

\* what a pass started in state w leaves when no injected adapter call fails and
\* the three reconcile steps iterate the desired services in orders o1, o2, o3
passOutcome(w, o1, o2, o3) ==
    LET r1 == clusterIPServices(w, serviceInfoMap, endpointsInfoMap, o1, {})
        r2 == nodePortServices(r1.w, serviceInfoMap, endpointsInfoMap, o2,
                               nodeportBindOnAllIP, {})
        r3 == externalIPServices(r2.w, serviceInfoMap, endpointsInfoMap, o3, {})
        r4 == staleVIPs(r3.w, {})
        r5 == staleIPVSConfig(r4.w, {})
    IN [addrs |-> r5.w.addrs, ipvs |-> r5.w.ipvs, mangle |-> r5.w.mangle, fw |-> r5.w.fw,
        active |-> r5.w.active,
        err |-> (r1.err \/ r2.err \/ r3.err \/ r4.err \/ r5.err)]

\* the outcomes of the pass that starts here, over the iteration orders in which
\* no step returns an error
cleanOutcomes ==
    LET O == Orders(DOMAIN serviceInfoMap)
    IN {x \in {passOutcome(World, o1, o2, o3) : o1 \in O, o2 \in O, o3 \in O} : ~x.err}

\* C24: with no adapter failure the host state after a complete pass and the
\* final activeSet do not depend on the order in which the desired services are
\* iterated: all iteration orders of a pass give one outcome.
C24_OrderIndependent ==
    pc = "setupClusterIPServices" => Cardinality(cleanOutcomes) <= 1
====
